---- MODULE Spec2Model ----
(***************************************************************************)
(* Model of lib/rest: the Container registry, WebService route lists, the  *)
(* CurlyRouter selection engine and the default path-parameter extractor.  *)
(*                                                                         *)
(* Strings are sequences of one-character strings, so that tokenizing,     *)
(* slicing, prefix/suffix tests and byte-wise comparison are computed the  *)
(* way the Go code computes them.                                          *)
(***************************************************************************)
EXTENDS Integers, Sequences, FiniteSets, TLC

VARIABLES
    webServices,      \* Container.webServices: sequence of service ids
    ws,               \* the WebService objects: id -> [rootPath, tokens, routes]
    regexCache,       \* curly.go regexCache: pattern key -> source of the compiled regexp
    customVerbCache,  \* custom_verb.go customVerbCache: set of cached verbs (pattern ":V$")
    fatal,            \* TRUE once logger.Fatalf has ended the process
    out,              \* the request being served and its outcome (NoOut between requests)
    loggerLevel,      \* logger.go: the value of the flag -loggerLevel
    webServicesLock,  \* Container.webServicesLock: [writer, readers]
    routesLock,       \* WebService.routesLock of each service: [writer, readers]
    pc                \* the position of each thread inside the operation it runs

vars == <<webServices, ws, regexCache, customVerbCache, fatal, out,
          loggerLevel, webServicesLock, routesLock, pc>>

\* the variables that only the operations run step by step change
threadVars == <<loggerLevel, webServicesLock, routesLock, pc>>

-----------------------------------------------------------------------------
(* Bounds of the model *)

MaxRoutes == 2

\* the longest path and the longest token given to the string functions
MaxPathLen == 6

\* the most tokens of a path template given to templateToRegExp
MaxTokens == 4

\* the longest token given to the custom verb functions
MaxTokenLen == 3

NumServices == 2

NumThreads == 2

-----------------------------------------------------------------------------
(* Go string primitives on sequences of characters *)

\* byte values of the characters the model uses (Go compares strings byte-wise)
Ord ==
    ("*" :> 42) @@ ("+" :> 43) @@ ("," :> 44) @@ ("-" :> 45) @@ ("/" :> 47)
    @@ ("0" :> 48) @@ ("1" :> 49) @@ ("2" :> 50) @@ ("9" :> 57) @@ (":" :> 58)
    @@ (";" :> 59) @@ ("[" :> 91) @@ ("]" :> 93)
    @@ ("a" :> 97) @@ ("b" :> 98) @@ ("d" :> 100) @@ ("e" :> 101) @@ ("f" :> 102)
    @@ ("g" :> 103) @@ ("i" :> 105) @@ ("j" :> 106) @@ ("m" :> 109) @@ ("p" :> 112) @@ ("u" :> 117)
    @@ ("v" :> 118) @@ ("w" :> 119) @@ ("x" :> 120)
    @@ ("{" :> 123) @@ ("}" :> 125) @@ (" " :> 32)

Letters == {"a", "b", "d", "e", "f", "g", "i", "j", "m", "p", "u", "v", "w", "x"}

Digits == {"0", "1", "2", "9"}

Min(a, b) == IF a < b THEN a ELSE b

\* Go's s < t on strings
RECURSIVE StrLessFrom(_, _, _)
StrLessFrom(s, t, i) ==
    IF i > Len(s) THEN i <= Len(t)
    ELSE IF i > Len(t) THEN FALSE
    ELSE IF Ord[s[i]] < Ord[t[i]] THEN TRUE
    ELSE IF Ord[s[i]] > Ord[t[i]] THEN FALSE
    ELSE StrLessFrom(s, t, i + 1)

StrLess(s, t) == StrLessFrom(s, t, 1)

\* strings.Index(s, c) for a one-character c, as a 1-based position; 0 when absent
Index(s, c) ==
    IF \E i \in 1..Len(s) : s[i] = c
    THEN CHOOSE i \in 1..Len(s) : s[i] = c /\ \A j \in 1..(i - 1) : s[j] # c
    ELSE 0

HasPrefix(s, p) == Len(s) >= Len(p) /\ SubSeq(s, 1, Len(p)) = p

HasSuffix(s, p) == Len(s) >= Len(p) /\ SubSeq(s, Len(s) - Len(p) + 1, Len(s)) = p

RECURSIVE TrimLeft(_, _)
TrimLeft(s, c) == IF Len(s) > 0 /\ s[1] = c THEN TrimLeft(Tail(s), c) ELSE s

RECURSIVE TrimRight(_, _)
TrimRight(s, c) ==
    IF Len(s) > 0 /\ s[Len(s)] = c THEN TrimRight(SubSeq(s, 1, Len(s) - 1), c) ELSE s

Trim(s, c) == TrimRight(TrimLeft(s, c), c)

\* strings.Split(s, c): always at least one element
RECURSIVE Split(_, _)
Split(s, c) ==
    LET i == Index(s, c) IN
    IF i = 0 THEN <<s>>
    ELSE <<SubSeq(s, 1, i - 1)>> \o Split(SubSeq(s, i + 1, Len(s)), c)

RECURSIVE Join(_, _)
Join(parts, sep) ==
    IF Len(parts) = 0 THEN <<>>
    ELSE IF Len(parts) = 1 THEN parts[1]
    ELSE parts[1] \o sep \o Join(Tail(parts), sep)

-----------------------------------------------------------------------------
(* route.go *)

tokenizePath_NoRootCase(path) == Split(Trim(path, "/"), "/")

tokenizePath(path) ==
    IF path = <<"/">> THEN <<>> ELSE Split(Trim(path, "/"), "/")

\* route_builder.go
concatPath(rootPath, routePath) ==
    TrimRight(rootPath, "/") \o <<"/">> \o TrimLeft(routePath, "/")

-----------------------------------------------------------------------------
(* custom_verb.go: customVerbReg = ":([A-Za-z]+)$" *)

\* position of the ":" that starts the match of customVerbReg, 0 when no match
VerbPos(tok) ==
    IF \E k \in 1..(Len(tok) - 1) :
          tok[k] = ":" /\ \A j \in (k + 1)..Len(tok) : tok[j] \in Letters
    THEN CHOOSE k \in 1..(Len(tok) - 1) :
          tok[k] = ":" /\ \A j \in (k + 1)..Len(tok) : tok[j] \in Letters
    ELSE 0

hasCustomVerb(tok) == VerbPos(tok) # 0

removeCustomVerb_KeepColon(tok) ==
    IF VerbPos(tok) = 0 THEN tok ELSE SubSeq(tok, 1, VerbPos(tok))

removeCustomVerb(tok) ==
    IF VerbPos(tok) = 0 THEN tok ELSE SubSeq(tok, 1, VerbPos(tok) - 1)

\* the verb captured by customVerbReg (group 1)
CustomVerbOf(tok) == SubSeq(tok, VerbPos(tok) + 1, Len(tok))

\* the regexp ":V$" built from the route's verb, matched against the request token
isMatchCustomVerb(routeToken, pathToken) ==
    /\ hasCustomVerb(routeToken)
    /\ HasSuffix(pathToken, <<":">> \o CustomVerbOf(routeToken))

\* the cache after isMatchCustomVerb(routeToken, _): Store of the pattern on a miss
VerbCacheAfter(cache, routeToken) ==
    IF hasCustomVerb(routeToken) THEN cache \cup {CustomVerbOf(routeToken)} ELSE cache

-----------------------------------------------------------------------------
(* regexp.Compile / MatchString for the patterns the router compiles.       *)
(* The only regexp metacharacter of the model's request alphabet is "*".   *)

\* regexp.Compile(src) succeeds: no "*" without an operand, no "**"
RegexCompiles(src) ==
    \A i \in 1..Len(src) : src[i] = "*" => (i > 1 /\ src[i - 1] # "*")

\* the compiled pattern from atom k on matches a prefix of s[i..]
RECURSIVE RegexMatchAt(_, _, _, _)
RegexMatchAt(src, k, s, i) ==
    IF k > Len(src) THEN TRUE
    ELSE IF k < Len(src) /\ src[k + 1] = "*"
         THEN \/ RegexMatchAt(src, k + 2, s, i)
              \/ (i <= Len(s) /\ s[i] = src[k] /\ RegexMatchAt(src, k, s, i + 1))
         ELSE i <= Len(s) /\ s[i] = src[k] /\ RegexMatchAt(src, k + 1, s, i + 1)

\* regex.MatchString(s): unanchored
RegexMatchString(src, s) == \E i \in 1..(Len(s) + 1) : RegexMatchAt(src, 1, s, i)

-----------------------------------------------------------------------------
(* curly.go: the selection engine.  The two caches are threaded through    *)
(* the evaluation as st = [rc, vc, panic]; panic records a runtime fault   *)
(* (slice bounds out of range), after which nothing more is evaluated.     *)

NoService == 0

NoRoute == [Method |-> "", Path |-> <<>>]

CacheStore(rc, key, src) ==
    [k \in (DOMAIN rc) \cup {key} |-> IF k = key THEN src ELSE rc[k]]

\* regularMatchesPathToken(routeToken, colon, requestToken); colon is the
\* 1-based position of ":" in routeToken (Go's colon + 1)
regularMatchesPathToken(routeToken, colon, requestToken, st) ==
    IF colon > Len(routeToken) - 1
    THEN \* routeToken[colon+1 : len-1] with low > high
         [tok |-> FALSE, rem |-> FALSE, st |-> [st EXCEPT !.panic = TRUE]]
    ELSE
    LET regPart == SubSeq(routeToken, colon + 1, Len(routeToken) - 1) IN
    IF regPart = <<"*">> THEN [tok |-> TRUE, rem |-> TRUE, st |-> st]
    ELSE IF regPart \in DOMAIN st.rc
    THEN [tok |-> RegexMatchString(st.rc[regPart], requestToken), rem |-> FALSE, st |-> st]
    ELSE IF ~RegexCompiles(requestToken)
    THEN [tok |-> FALSE, rem |-> FALSE, st |-> st]
    ELSE [tok |-> RegexMatchString(requestToken, requestToken), rem |-> FALSE,
          st  |-> [st EXCEPT !.rc = CacheStore(st.rc, regPart, requestToken)]]

RECURSIVE ScoreLoop(_, _, _, _, _)
ScoreLoop(requestTokens, routeTokens, i, score, st) ==
    IF i > Len(routeTokens) THEN [matches |-> TRUE, score |-> score, st |-> st]
    ELSE
    LET eachRequestToken == requestTokens[i]
        eachRouteToken == routeTokens[i]
    IN
    IF Len(eachRequestToken) = 0 /\ Len(eachRouteToken) = 0
    THEN ScoreLoop(requestTokens, routeTokens, i + 1, score + 1, st)
    ELSE IF Len(eachRouteToken) > 0 /\ HasPrefix(eachRouteToken, <<"{">>)
    THEN IF Len(eachRequestToken) = 0
         THEN [matches |-> FALSE, score |-> score, st |-> st]
         ELSE IF Index(eachRouteToken, ":") # 0
         THEN LET r == regularMatchesPathToken(eachRouteToken, Index(eachRouteToken, ":"),
                                               eachRequestToken, st)
              IN IF r.st.panic
                 THEN [matches |-> FALSE, score |-> score, st |-> r.st]
                 ELSE ScoreLoop(requestTokens, routeTokens, i + 1,
                                score + 1 + (IF r.tok THEN 1 ELSE 0), r.st)
         ELSE ScoreLoop(requestTokens, routeTokens, i + 1, score + 1, st)
    ELSE IF eachRequestToken # eachRouteToken
    THEN [matches |-> FALSE, score |-> score, st |-> st]
    ELSE ScoreLoop(requestTokens, routeTokens, i + 1,
                   score + (Len(routeTokens) - (i - 1)) * 10, st)

\* a variant that lets every root of at most the request's length match
computeWebServiceScore_AnyRoot(requestTokens, routeTokens, st) ==
    IF Len(routeTokens) > Len(requestTokens)
    THEN [matches |-> FALSE, score |-> 0, st |-> st]
    ELSE [matches |-> TRUE, score |-> Len(routeTokens), st |-> st]

computeWebServiceScore(requestTokens, routeTokens, st) ==
    IF Len(routeTokens) > Len(requestTokens)
    THEN [matches |-> FALSE, score |-> 0, st |-> st]
    ELSE ScoreLoop(requestTokens, routeTokens, 1, 0, st)

\* the loop of detectWebService over services[k..]
RECURSIVE DetectLoop(_, _, _, _, _, _)
DetectLoop(requestTokens, services, k, selected, score, st) ==
    IF k > Len(services) \/ st.panic THEN [service |-> selected, st |-> st]
    ELSE
    LET r == computeWebServiceScore(requestTokens, ws[services[k]].tokens, st) IN
    IF r.matches /\ r.score > score
    THEN DetectLoop(requestTokens, services, k + 1, services[k], r.score, r.st)
    ELSE DetectLoop(requestTokens, services, k + 1, selected, score, r.st)

detectWebService(requestTokens, services, st) ==
    DetectLoop(requestTokens, services, 1, NoService, -1, st)

-----------------------------------------------------------------------------
(* curly.go: candidate routes of the detected service *)

RECURSIVE MatchLoop(_, _, _, _, _, _, _)
MatchLoop(routeTokens, requestTokens, routeHasCustomVerb, i, paramCount, staticCount, st) ==
    LET no(s) == [matches |-> FALSE, paramCount |-> 0, staticCount |-> 0, st |-> s]
        yes(p, c, s) == [matches |-> TRUE, paramCount |-> p, staticCount |-> c, st |-> s]
    IN
    IF i > Len(routeTokens) THEN yes(paramCount, staticCount, st)
    ELSE IF i = Len(requestTokens) + 1 THEN no(st)   \* reached the end of request path
    ELSE
    LET verb == routeHasCustomVerb /\ hasCustomVerb(routeTokens[i])
        st1 == IF verb THEN [st EXCEPT !.vc = VerbCacheAfter(st.vc, routeTokens[i])] ELSE st
        static1 == IF verb THEN staticCount + 1 ELSE staticCount
        requestToken == IF verb THEN removeCustomVerb(requestTokens[i]) ELSE requestTokens[i]
        routeToken == IF verb THEN removeCustomVerb(routeTokens[i]) ELSE routeTokens[i]
    IN
    IF verb /\ ~isMatchCustomVerb(routeTokens[i], requestTokens[i]) THEN no(st1)
    ELSE IF HasPrefix(routeToken, <<"{">>)
    THEN IF Index(requestToken, ":") # 0
         THEN LET r == regularMatchesPathToken(requestToken, Index(requestToken, ":"),
                                               requestToken, st1)
              IN IF r.st.panic THEN no(r.st)
                 ELSE IF ~r.tok THEN no(r.st)
                 ELSE IF r.rem THEN yes(paramCount + 1, static1, r.st)   \* break
                 ELSE MatchLoop(routeTokens, requestTokens, routeHasCustomVerb, i + 1,
                                paramCount + 1, static1, r.st)
         ELSE MatchLoop(routeTokens, requestTokens, routeHasCustomVerb, i + 1,
                        paramCount + 1, static1, st1)
    ELSE IF requestToken # routeToken THEN no(st1)
    ELSE MatchLoop(routeTokens, requestTokens, routeHasCustomVerb, i + 1,
                   paramCount, static1 + 1, st1)

matchesRouteByPathTokens(routeTokens, requestTokens, routeHasCustomVerb, st) ==
    IF /\ Len(routeTokens) < Len(requestTokens)
       /\ (Len(routeTokens) = 0 \/ ~HasSuffix(routeTokens[Len(routeTokens)], <<"*">>))
    THEN [matches |-> FALSE, paramCount |-> 0, staticCount |-> 0, st |-> st]
    ELSE MatchLoop(routeTokens, requestTokens, routeHasCustomVerb, 1, 0, 0, st)

\* Less with the final comparison swapped: smallest Path first
Less_SmallestPathFirst(s, i, j) ==
    LET a == s[j]
        b == s[i]
    IN
    IF a.staticCount < b.staticCount THEN TRUE
    ELSE IF a.staticCount > b.staticCount THEN FALSE
    ELSE IF a.paramCount < b.paramCount THEN TRUE
    ELSE IF a.paramCount > b.paramCount THEN FALSE
    ELSE StrLess(b.Path, a.Path)

\* curly_route.go: sortableCurlyRoutes.Less(i, j)
Less(s, i, j) ==
    LET a == s[j]
        b == s[i]
    IN
    IF a.staticCount < b.staticCount THEN TRUE
    ELSE IF a.staticCount > b.staticCount THEN FALSE
    ELSE IF a.paramCount < b.paramCount THEN TRUE
    ELSE IF a.paramCount > b.paramCount THEN FALSE
    ELSE StrLess(a.Path, b.Path)

Swap(s, i, j) == [s EXCEPT ![i] = s[j], ![j] = s[i]]

\* sort.Sort on at most 12 elements is insertionSort(data, 0, n)
RECURSIVE InsertInner(_, _)
InsertInner(s, j) ==
    IF j > 1 /\ Less(s, j, j - 1) THEN InsertInner(Swap(s, j, j - 1), j - 1) ELSE s

RECURSIVE InsertionSort(_, _)
InsertionSort(s, i) ==
    IF i > Len(s) THEN s ELSE InsertionSort(InsertInner(s, i), i + 1)

SortRoutes(s) == InsertionSort(s, 2)

\* the body of the loop of selectRoutes: a route that matches is appended
\* with this request's counts m
AppendMatch(candidates, eachRoute, m) ==
    IF m.matches
    THEN Append(candidates, [eachRoute EXCEPT !.paramCount = m.paramCount,
                                              !.staticCount = m.staticCount])
    ELSE candidates

\* the loop of selectRoutes over routes[k..]; each candidate is a copy of the
\* stored route carrying this request's paramCount and staticCount
RECURSIVE SelectLoop(_, _, _, _, _)
\* one iteration, m being the result of matchesRouteByPathTokens for routes[k]
SelectStep(routes, requestTokens, k, candidates, m) ==
    SelectLoop(routes, requestTokens, k + 1, AppendMatch(candidates, routes[k], m), m.st)

SelectLoop(routes, requestTokens, k, candidates, st) ==
    IF k > Len(routes) \/ st.panic THEN [candidates |-> candidates, st |-> st]
    ELSE SelectStep(routes, requestTokens, k, candidates,
                    matchesRouteByPathTokens(routes[k].pathParts, requestTokens,
                                             routes[k].hasCustomVerb, st))

\* selectRoutes after its loop: sort.Sort(&candidates)
SortCandidates(r) ==
    [matched |-> r.candidates, candidates |-> SortRoutes(r.candidates), st |-> r.st]

selectRoutes(service, requestTokens, st) ==
    SortCandidates(SelectLoop(ws[service].routes, requestTokens, 1, <<>>, st))

-----------------------------------------------------------------------------
(* route.go: content negotiation *)

MIME_OCTET == <<"a", "p", "p", "l", "i", "c", "a", "t", "i", "o", "n", "/", "o", "c", "t", "e", "t", "-", "s", "t", "r", "e", "a", "m">>

MIME_ANY == <<"*", "/", "*">>

\* parseNextMimeType(remaining) = (mimeType, nextRemaining)
parseNextMimeType(remaining) ==
    LET end == Index(remaining, ",")
        head == IF end = 0 THEN remaining ELSE SubSeq(remaining, 1, end - 1)
        rest == IF end = 0 THEN <<>> ELSE SubSeq(remaining, end + 1, Len(remaining))
        quality == Index(head, ";")
        cut == IF quality = 0 THEN head ELSE SubSeq(head, 1, quality - 1)
    IN [mimeType |-> Trim(cut, " "), remaining |-> rest]

RECURSIVE ConsumesLoop(_, _)
ConsumesLoop(r, remaining) ==
    LET p == parseNextMimeType(remaining) IN
    IF \E k \in 1..Len(r.Consumes) :
          r.Consumes[k] = MIME_ANY \/ r.Consumes[k] = p.mimeType
    THEN TRUE
    ELSE IF Len(p.remaining) = 0 THEN FALSE
    ELSE ConsumesLoop(r, p.remaining)

\* a variant that exempts every method when the request has no Content-Type
matchesContentType_AnyMethodExempt(r, mimeTypes) ==
    IF Len(r.Consumes) = 0 THEN TRUE
    ELSE IF Len(mimeTypes) = 0 THEN TRUE
    ELSE ConsumesLoop(r, MIME_OCTET)

matchesContentType(r, mimeTypes) ==
    IF Len(r.Consumes) = 0 THEN TRUE
    ELSE IF Len(mimeTypes) = 0 /\ r.Method \in {"GET", "HEAD", "OPTIONS", "DELETE", "TRACE"}
    THEN TRUE
    ELSE ConsumesLoop(r, MIME_OCTET)   \* mimeTypes = MIME_OCTET is assigned on every path

\* a variant that looks at the first entry of the Accept header only
matchesAccept_FirstEntryOnly(r, mimeTypesWithQuality) ==
    LET p == parseNextMimeType(mimeTypesWithQuality) IN
    \/ p.mimeType = MIME_ANY
    \/ \E k \in 1..Len(r.Produces) :
          r.Produces[k] = MIME_ANY \/ r.Produces[k] = p.mimeType

RECURSIVE matchesAccept(_, _)
matchesAccept(r, mimeTypesWithQuality) ==
    LET p == parseNextMimeType(mimeTypesWithQuality) IN
    IF p.mimeType = MIME_ANY THEN TRUE
    ELSE IF \E k \in 1..Len(r.Produces) :
          r.Produces[k] = MIME_ANY \/ r.Produces[k] = p.mimeType
    THEN TRUE
    ELSE IF Len(p.remaining) = 0 THEN FALSE
    ELSE matchesAccept(r, p.remaining)

-----------------------------------------------------------------------------
(* curly.go: detectRoute and SelectRoute *)

\* a variant that lists a method once per candidate
RECURSIVE AllowedMethods_KeepDuplicates(_, _)
AllowedMethods_KeepDuplicates(previous, allowedMethods) ==
    IF Len(previous) = 0 THEN allowedMethods
    ELSE AllowedMethods_KeepDuplicates(Tail(previous),
                                       Append(allowedMethods, previous[1].Method))

\* the allowedLoop of detectRoute: methods of previous, each once, first seen first
RECURSIVE AllowedMethods(_, _)
AllowedMethods(previous, allowedMethods) ==
    IF Len(previous) = 0 THEN allowedMethods
    ELSE IF \E k \in 1..Len(allowedMethods) : allowedMethods[k] = previous[1].Method
    THEN AllowedMethods(Tail(previous), allowedMethods)
    ELSE AllowedMethods(Tail(previous), Append(allowedMethods, previous[1].Method))

RECURSIVE Available(_)
Available(previous) ==
    IF Len(previous) = 0 THEN <<>> ELSE previous[1].Produces \o Available(Tail(previous))

\* a variant that filters on Accept before the method
detectRoute_AcceptFirst(candidateRoutes, httpRequest) ==
    LET none == [route |-> NoRoute, status |-> 0, allow |-> <<>>, available |-> <<>>]
        accept == IF Len(httpRequest.accept) = 0 THEN MIME_ANY ELSE httpRequest.accept
        byAccept == SelectSeq(candidateRoutes, LAMBDA e : matchesAccept(e, accept))
        byMethod == SelectSeq(byAccept, LAMBDA e : httpRequest.method = e.Method)
        byContentType == SelectSeq(byMethod, LAMBDA e : matchesContentType(e, httpRequest.contentType))
    IN
    IF Len(candidateRoutes) = 0 THEN [none EXCEPT !.status = 404]
    ELSE IF Len(byAccept) = 0
    THEN [none EXCEPT !.status = 406, !.available = Available(candidateRoutes)]
    ELSE IF Len(byMethod) = 0
    THEN [none EXCEPT !.status = 405, !.allow = AllowedMethods(byAccept, <<>>)]
    ELSE IF Len(byContentType) = 0 THEN [none EXCEPT !.status = 415]
    ELSE [none EXCEPT !.route = byContentType[1]]

detectRoute(candidateRoutes, httpRequest) ==
    LET none == [route |-> NoRoute, status |-> 0, allow |-> <<>>, available |-> <<>>]
        byMethod == SelectSeq(candidateRoutes, LAMBDA e : httpRequest.method = e.Method)
        byContentType == SelectSeq(byMethod, LAMBDA e : matchesContentType(e, httpRequest.contentType))
        accept == IF Len(httpRequest.accept) = 0 THEN MIME_ANY ELSE httpRequest.accept
        byAccept == SelectSeq(byContentType, LAMBDA e : matchesAccept(e, accept))
    IN
    IF Len(candidateRoutes) = 0 THEN [none EXCEPT !.status = 404]
    ELSE IF Len(byMethod) = 0
    THEN [none EXCEPT !.status = 405, !.allow = AllowedMethods(candidateRoutes, <<>>)]
    ELSE IF Len(byContentType) = 0 THEN [none EXCEPT !.status = 415]
    ELSE IF Len(byAccept) = 0
    THEN [none EXCEPT !.status = 406, !.available = Available(byContentType)]
    ELSE [none EXCEPT !.route = byAccept[1]]

\* a result of SelectRoute without a route: nil, and the error or the panic
NoRouteResult(kind, status, service, st) ==
    [kind |-> kind, status |-> status, service |-> service, route |-> NoRoute,
     allow |-> <<>>, available |-> <<>>, matched |-> <<>>, candidates |-> <<>>, st |-> st]

\* SelectRoute from the result r of detectRoute on
RouteResult(service, c, r) ==
    [kind |-> IF r.route = NoRoute THEN "error" ELSE "route",
     status |-> r.status, service |-> service, route |-> r.route,
     allow |-> r.allow, available |-> r.available,
     matched |-> c.matched, candidates |-> c.candidates, st |-> c.st]

\* SelectRoute from the result c of selectRoutes on
CandidatesResult(service, c, httpRequest) ==
    IF c.st.panic THEN NoRouteResult("panic", 0, service, c.st)
    ELSE IF Len(c.candidates) = 0 THEN NoRouteResult("error", 404, service, c.st)
    ELSE RouteResult(service, c, detectRoute(c.candidates, httpRequest))

\* SelectRoute from the result d of detectWebService on
ServiceResult(d, requestTokens, httpRequest) ==
    IF d.st.panic THEN NoRouteResult("panic", 0, NoService, d.st)
    ELSE IF d.service = NoService THEN NoRouteResult("error", 404, NoService, d.st)
    ELSE CandidatesResult(d.service, selectRoutes(d.service, requestTokens, d.st), httpRequest)

\* SelectRoute(webServices, httpRequest) with the caches st
SelectRoute(services, httpRequest, st) ==
    ServiceResult(detectWebService(tokenizePath(httpRequest.path), services, st),
                  tokenizePath(httpRequest.path), httpRequest)

-----------------------------------------------------------------------------
(* The default path processor: ExtractParameters *)

NoParams == [k \in {} |-> <<>>]

\* a variant that ends the joined path with a slash
unTokenizePath_TrailingSlash(offset, parts) ==
    Join(SubSeq(parts, offset, Len(parts)), <<"/">>) \o <<"/">>

\* unTokenizePath(offset, parts), offset being the 1-based index of the first part
unTokenizePath(offset, parts) == Join(SubSeq(parts, offset, Len(parts)), <<"/">>)

RECURSIVE ExtractLoop(_, _, _, _)
ExtractLoop(r, urlParts, i, pathParameters) ==
    IF i > Len(r.pathParts) THEN [params |-> pathParameters, panic |-> FALSE]
    ELSE
    LET verb == r.hasCustomVerb /\ hasCustomVerb(r.pathParts[i])
        rawValue == IF i > Len(urlParts) THEN <<>> ELSE urlParts[i]
        key == IF verb THEN removeCustomVerb(r.pathParts[i]) ELSE r.pathParts[i]
        value == IF verb THEN removeCustomVerb(rawValue) ELSE rawValue
        colon == Index(key, ":")
        startIndex == Index(key, "{") - 1          \* Go's 0-based indexes
        endKeyIndex == Index(key, "}") - 1
        suffixLength == Len(key) - endKeyIndex - 1
        endValueIndex == Len(value) - suffixLength
        put(k, v) == [n \in (DOMAIN pathParameters) \cup {k} |->
                          IF n = k THEN v ELSE pathParameters[n]]
        fault == [params |-> pathParameters, panic |-> TRUE]
    IN
    IF Index(key, "{") = 0 THEN ExtractLoop(r, urlParts, i + 1, pathParameters)
    ELSE IF colon # 0
    THEN IF colon > Len(key) - 1 \/ colon = 1 THEN fault   \* key[colon+1:len-1], key[1:colon]
         ELSE LET regPart == SubSeq(key, colon + 1, Len(key) - 1)
                  keyPart == SubSeq(key, 2, colon - 1)
              IN IF regPart = <<"*">>
                 THEN [params |-> put(keyPart, unTokenizePath(i, urlParts)), panic |-> FALSE]
                 ELSE ExtractLoop(r, urlParts, i + 1, put(keyPart, value))
    ELSE IF \/ startIndex + 1 > endKeyIndex                 \* key[startIndex+1:endKeyIndex]
            \/ startIndex > endValueIndex                   \* value[startIndex:endValueIndex]
            \/ endValueIndex > Len(value)
    THEN fault
    ELSE ExtractLoop(r, urlParts, i + 1,
                     put(SubSeq(key, startIndex + 2, endKeyIndex),
                         SubSeq(value, startIndex + 1, endValueIndex)))

\* a variant that never strips the custom verb
ExtractParameters_KeepVerb(r, urlPath) ==
    ExtractLoop([r EXCEPT !.hasCustomVerb = FALSE], tokenizePath(urlPath), 1, NoParams)

ExtractParameters(r, urlPath) == ExtractLoop(r, tokenizePath(urlPath), 1, NoParams)

-----------------------------------------------------------------------------
(* The values the environment calls the API with *)

Services == 1..NumServices

V_ROOT == <<"/", "v">>

MIME_JSON == <<"a", "p", "p", "l", "i", "c", "a", "t", "i", "o", "n", "/", "j", "s", "o", "n">>

\* builders: ws.METHOD(subPath).To(fn)
RouteSpecs ==
    { [method |-> "GET",  subPath |-> <<"/", "u", "/", "{", "i", "}">>,        fn |-> "UserGet"],
      [method |-> "GET",  subPath |-> <<"/", "u", "/", "{", "i", ":", "[", "0", "-", "9", "]", "+", "}">>, fn |-> "UserGetNum"],
      [method |-> "GET",  subPath |-> <<"/", "u", "/", "m", "e">>,         fn |-> "UserMe"],
      [method |-> "POST", subPath |-> <<"/", "u", "/", "{", "i", "}">>,        fn |-> "UserUpdate"],
      [method |-> "GET",  subPath |-> <<"/", "u", "/", "{", "i", "}", ":", "g">>,      fn |-> "UserVerbGet"],
      [method |-> "GET",  subPath |-> <<"/", "f", "/", "{", "p", ":", "*", "}">>,      fn |-> "FileGet"],
      [method |-> "GET",  subPath |-> <<"/", "u", "/", "{", "i", "}", "/", "p">>,      fn |-> "UserPets"],
      [method |-> "GET",  subPath |-> <<"/", "u", "/", "{", "i", "}", "/", "{", "j", "}">>, fn |-> "UserItem"],
      [method |-> "GET",  subPath |-> <<"/", "u", "/", "{", "i", "}", "/", "{", "j", "}", ":", "g">>, fn |-> "UserItemVerbGet"] }

MimeLists == { <<>>, <<MIME_JSON>> }

RequestPaths ==
    { <<"/", "v", "/", "u", "/", "m", "e">>,
      <<"/", "v", "/", "u", "/", "1">>,
      <<"/", "v", "/", "u", "/", "a", "b">>,
      <<"/", "v", "/", "u", "/", "x", ":">>,
      <<"/", "v", "/", "u", "/", "1", ":", "g">>,
      <<"/", "v", "/", "u", "/", "1", ":", "d">>,
      <<"/", "v", "/", "u", "/", "a", ":", "*", "b", "/", "p">>,
      <<"/", "v", "/", "f", "/", "a">>,
      <<"/", "v", "/", "f", "/", "a", "/", "b">>,
      <<"/", "v">>,
      <<"/", "w", "/", "u">> }

Methods == {"GET", "POST", "PUT"}

AcceptValues == { <<>>, MIME_JSON }

ContentTypes == { <<>> }

Requests ==
    [path : RequestPaths, method : Methods, accept : AcceptValues, contentType : ContentTypes]

-----------------------------------------------------------------------------
(* State and operations *)

NoOut == [kind |-> "none"]

Threads == 1..NumThreads

\* no thread: the writer of an unlocked sync.RWMutex
NoThread == 0

\* a sync.RWMutex that nobody holds
Unlocked == [writer |-> NoThread, readers |-> {}]

\* a thread that runs no operation
AtRest == [at |-> "idle"]

\* logger.go: shouldSkipLog(level)
shouldSkipLog(level) ==
    CASE loggerLevel = "WARN"  -> level \notin {"WARN", "ERROR", "FATAL", "PANIC"}
      [] loggerLevel = "ERROR" -> level \notin {"ERROR", "FATAL", "PANIC"}
      [] loggerLevel = "FATAL" -> level \notin {"FATAL", "PANIC"}
      [] loggerLevel = "PANIC" -> level # "PANIC"
      [] OTHER -> FALSE

\* logger.Fatalf ends the process, unless the level is skipped
FatalfExits == ~shouldSkipLog("FATAL")

\* the flags at their defaults, the locks free, no thread inside an operation
InitThreads ==
    /\ loggerLevel = "INFO"
    /\ webServicesLock = Unlocked
    /\ routesLock = [s \in Services |-> Unlocked]
    /\ pc = [t \in Threads |-> AtRest]

NewWebService == [rootPath |-> <<>>, tokens |-> <<>>, routes |-> <<>>]

\* WebService.Path(root) on a service record
WithPath(w, root) ==
    LET rootPath == IF Len(root) = 0 THEN <<"/">> ELSE root IN
    [w EXCEPT !.rootPath = rootPath, !.tokens = tokenizePath(rootPath)]

\* RouteBuilder.Build of a builder created by ws.METHOD(subPath) on service w
Build(w, b) ==
    LET path == concatPath(w.rootPath, b.subPath) IN
    [Method |-> b.method, Path |-> path, Function |-> b.fn,
     Produces |-> <<>>, Consumes |-> <<>>,
     relativePath |-> b.subPath, pathParts |-> tokenizePath(path),
     hasCustomVerb |-> hasCustomVerb(path), paramCount |-> 0, staticCount |-> 0]

TypeOK ==
    /\ fatal \in BOOLEAN
    /\ \A k \in 1..Len(webServices) : webServices[k] \in Services
    /\ \A s \in Services : Len(ws[s].routes) <= MaxRoutes

Init ==
    /\ webServices = <<>>
    /\ ws = [s \in Services |-> IF s = 1 THEN WithPath(NewWebService, V_ROOT) ELSE NewWebService]
    /\ regexCache = [k \in {} |-> <<>>]
    /\ customVerbCache = {}
    /\ fatal = FALSE
    /\ out = NoOut
    /\ InitThreads

\* the process is running and no request is being served
Idle == ~fatal /\ out = NoOut

\* WebService.Path(root)
WsPath(s, root) ==
    /\ Idle
    /\ ws' = [ws EXCEPT ![s] = WithPath(ws[s], root)]
    /\ UNCHANGED <<webServices, regexCache, customVerbCache, fatal, out>>
    /\ UNCHANGED threadVars

\* ws.Route(ws.METHOD(subPath).Produces(produces...).Consumes(consumes...).To(fn))
WsRoute(s, b, produces, consumes) ==
    /\ Idle
    /\ Len(ws[s].routes) < MaxRoutes
    /\ ws' = [ws EXCEPT ![s].routes = Append(@, Build(ws[s], b))]
    /\ UNCHANGED <<webServices, regexCache, customVerbCache, fatal, out>>
    /\ UNCHANGED threadVars

\* the Function of a builder without To(fn)
NoFunction == "nil"

\* ws.Route of a builder without To(fn): Build ends the process, or goes on
\* when logger.Fatalf returns
WsRouteNoFunction(s) ==
    /\ Idle
    /\ FatalfExits \/ Len(ws[s].routes) < MaxRoutes
    /\ fatal' = FatalfExits
    /\ ws' = IF FatalfExits THEN ws
             ELSE [ws EXCEPT ![s].routes =
                      Append(@, Build(ws[s], [method |-> "GET", subPath |-> <<"/">>,
                                              fn |-> NoFunction]))]
    /\ UNCHANGED <<webServices, regexCache, customVerbCache, out>>
    /\ UNCHANGED threadVars

\* a variant that removes the routes of the path whatever their method
RemoveRoute_AnyMethod(routes, path, method) ==
    SelectSeq(routes, LAMBDA route : route.Path # path)

\* the loop of WebService.RemoveRoute: newRoutes
RemoveRoute(routes, path, method) ==
    SelectSeq(routes, LAMBDA route : ~(route.Method = method /\ route.Path = path))

\* WebService.RemoveRoute(path, method)
WsRemoveRoute(s, path, method) ==
    /\ Idle
    /\ ws' = [ws EXCEPT ![s].routes = RemoveRoute(@, path, method)]
    /\ UNCHANGED <<webServices, regexCache, customVerbCache, fatal, out>>
    /\ UNCHANGED threadVars

\* Container.Add(service)
Add(s) ==
    /\ Idle
    /\ LET service == IF Len(ws[s].rootPath) = 0 THEN WithPath(ws[s], <<"/">>) ELSE ws[s]
           duplicate == \E k \in 1..Len(webServices) :
                            (IF webServices[k] = s THEN service ELSE ws[webServices[k]]).rootPath
                                = service.rootPath
       IN /\ ws' = [ws EXCEPT ![s] = service]
          /\ fatal' = (duplicate /\ FatalfExits)
          /\ webServices' = IF duplicate /\ FatalfExits THEN webServices
                            ELSE Append(webServices, s)
    /\ UNCHANGED <<regexCache, customVerbCache, out>>
    /\ UNCHANGED threadVars

\* Container.Remove(service)
Remove(s) ==
    /\ Idle
    /\ webServices' = SelectSeq(webServices, LAMBDA each : ws[each].rootPath # ws[s].rootPath)
    /\ UNCHANGED <<ws, regexCache, customVerbCache, fatal, out>>
    /\ UNCHANGED threadVars

\* dispatch after ExtractParameters (ex): the route function, or the service
\* error handler, is called with the request
Respond(req, sel, ex) ==
    /\ regexCache' = sel.st.rc
    /\ customVerbCache' = sel.st.vc
    /\ out' = [req |-> req,
               kind |-> IF ex.panic THEN "panic" ELSE sel.kind,
               status |-> sel.status,
               service |-> sel.service,
               route |-> sel.route,
               allow |-> sel.allow,
               available |-> sel.available,
               matched |-> sel.matched,
               candidates |-> sel.candidates,
               params |-> ex.params,
               called |-> IF sel.kind = "error" THEN "serviceErrorHandleFunc"
                          ELSE IF sel.kind = "route" /\ ~ex.panic THEN sel.route.Function
                          ELSE "none"]

\* dispatch after SelectRoute (sel)
Routed(req, sel) ==
    Respond(req, sel,
            IF sel.kind = "route" THEN ExtractParameters(sel.route, req.path)
            ELSE [params |-> NoParams, panic |-> FALSE])

\* Container.Dispatch(w, r) with non-nil w and r
Dispatch(req) ==
    /\ Idle
    /\ Routed(req, SelectRoute(webServices, req,
                               [rc |-> regexCache, vc |-> customVerbCache, panic |-> FALSE]))
    /\ UNCHANGED <<webServices, ws, fatal>>
    /\ UNCHANGED threadVars

\* the caller of Dispatch returns: the request and its context are discarded
EndRequest ==
    /\ ~fatal
    /\ out # NoOut
    /\ out' = NoOut
    /\ UNCHANGED <<webServices, ws, regexCache, customVerbCache, fatal>>
    /\ UNCHANGED threadVars

\* the services configured with the root of the route pool
Rooted == {s \in Services : ws[s].rootPath = V_ROOT}

Next ==
    \/ \E b \in RouteSpecs, produces \in MimeLists, consumes \in MimeLists :
          \E s \in Rooted : WsRoute(s, b, produces, consumes)
    \/ \E s \in Rooted : WsRouteNoFunction(s)
    \/ \E s \in Rooted, b \in RouteSpecs :
          WsRemoveRoute(s, concatPath(ws[s].rootPath, b.subPath), b.method)
    \/ \E s \in Rooted : Add(s)
    \/ \E s \in Rooted : Remove(s)
    \/ \E req \in Requests : Dispatch(req)
    \/ EndRequest

Spec == Init /\ [][Next]_vars

-----------------------------------------------------------------------------
(* Service detection: services without routes, registered under varying roots *)

DetectRoots ==
    { <<>>, <<"/", "a">>, <<"/", "a", "/", "b">>, <<"/", "{", "t", "}">>, <<"/", "{", "t", ":", "[", "0", "-", "9", "]", "+", "}">> }

DetectRequests ==
    [path : { <<"/">>, <<"/", "a">>, <<"/", "a", "/", "b">>, <<"/", "1">>, <<"/", "b", "/", "a">> },
     method : {"GET"}, accept : {<<>>}, contentType : {<<>>}]

InitDetect ==
    /\ webServices = <<>>
    /\ ws = [s \in Services |-> NewWebService]
    /\ regexCache = [k \in {} |-> <<>>]
    /\ customVerbCache = {}
    /\ fatal = FALSE
    /\ out = NoOut
    /\ InitThreads

NextDetect ==
    \/ \E s \in Services, root \in DetectRoots : WsPath(s, root)
    \/ \E s \in Services : Add(s)
    \/ \E s \in Services : Remove(s)
    \/ \E req \in DetectRequests : Dispatch(req)
    \/ EndRequest

SpecDetect == InitDetect /\ [][NextDetect]_vars

-----------------------------------------------------------------------------
(* Content negotiation: detectRoute on candidates that declare what they   *)
(* consume and produce                                                    *)

MIME_TEXT == <<"t", "e", "x", "t", "/", "p", "l", "a", "i", "n">>

\* the builders of the routes on the path /v/u/{i}
NegotiationSpecs == {b \in RouteSpecs : b.fn \in {"UserGet", "UserUpdate"}}

\* Route values with Consumes and Produces set
NegotiableRoutes ==
    { [Build(WithPath(NewWebService, V_ROOT), b) EXCEPT !.Produces = p, !.Consumes = c,
                                                         !.paramCount = 1, !.staticCount = 2] :
        b \in NegotiationSpecs, p \in MimeLists, c \in MimeLists }

CandidateLists ==
    UNION { [1..n -> NegotiableRoutes] : n \in 1..MaxRoutes }

NegotiationPaths == { <<"/", "v", "/", "u", "/", "1">>, <<"/", "v">>, <<"/", "w", "/", "u">> }

NegotiationRequests ==
    [path : { <<"/", "v", "/", "u", "/", "1">> }, method : Methods,
     accept : { <<>>, MIME_JSON, MIME_TEXT }, contentType : { <<>>, MIME_JSON, MIME_TEXT }]

\* the outcome of detectRoute(candidateRoutes, httpRequest): no handler is called
DetectRouteOutcome(service, candidateRoutes, req, r) ==
    [req |-> req,
     kind |-> IF r.route = NoRoute THEN "error" ELSE "route",
     status |-> r.status,
     service |-> service,
     route |-> r.route,
     allow |-> r.allow,
     available |-> r.available,
     matched |-> candidateRoutes,
     candidates |-> candidateRoutes,
     params |-> NoParams,
     called |-> "none"]

\* detectRoute(candidateRoutes, httpRequest) called on its own
DetectRouteCall(service, candidateRoutes, req) ==
    /\ Idle
    /\ out' = DetectRouteOutcome(service, candidateRoutes, req,
                                 detectRoute(candidateRoutes, req))
    /\ UNCHANGED <<webServices, ws, regexCache, customVerbCache, fatal>>
    /\ UNCHANGED threadVars

\* the operations on the routes of NegotiationSpecs, and detectRoute on its
\* own: its result depends on its two arguments only, so the call is made
\* once per pair of arguments, on the container as constructed
NextNegotiate ==
    \/ \E s \in Rooted, b \in NegotiationSpecs, produces \in MimeLists, consumes \in MimeLists :
          WsRoute(s, b, produces, consumes)
    \/ \E s \in Rooted : Add(s)
    \/ \E s \in Rooted : Remove(s)
    \/ \E req \in [path : NegotiationPaths, method : Methods,
                    accept : AcceptValues, contentType : ContentTypes] : Dispatch(req)
    \/ EndRequest
    \/ /\ Len(webServices) = 0
       /\ \E s \in Rooted :
             /\ Len(ws[s].routes) = 0
             /\ \E c \in CandidateLists, req \in NegotiationRequests :
                   DetectRouteCall(s, c, req)

SpecNegotiate == Init /\ [][NextNegotiate]_vars

-----------------------------------------------------------------------------
(* The Accept stage: detectRoute on candidates that declare what they      *)
(* produce, for Accept headers of several entries                          *)

ACCEPT_TEXT_THEN_JSON == <<"t", "e", "x", "t", "/", "p", "l", "a", "i", "n", ";", "q", "=", "0", ".", "5", ",", " ", "a", "p", "p", "l", "i", "c", "a", "t", "i", "o", "n", "/", "j", "s", "o", "n">>
ACCEPT_HTML_THEN_ANY == <<"t", "e", "x", "t", "/", "h", "t", "m", "l", ",", " ", "*", "/", "*", ";", "q", "=", "0", ".", "1">>
ACCEPT_JSON_QUALITY == <<" ", "a", "p", "p", "l", "i", "c", "a", "t", "i", "o", "n", "/", "j", "s", "o", "n", " ", ";", "q", "=", "1">>
ACCEPT_HTML == <<"t", "e", "x", "t", "/", "h", "t", "m", "l">>

ProducesLists == { <<>>, <<MIME_JSON>>, <<MIME_ANY>>, <<MIME_TEXT, MIME_JSON>> }

\* POST routes that consume nothing or JSON, and one GET route
AcceptRoutes ==
    { r \in { [Build(WithPath(NewWebService, V_ROOT), b) EXCEPT !.Produces = p, !.Consumes = c,
                                                                !.paramCount = 1, !.staticCount = 2] :
                b \in NegotiationSpecs, p \in ProducesLists, c \in MimeLists } :
        r.Method = "GET" => (Len(r.Consumes) = 0 /\ r.Produces = <<MIME_JSON>>) }

AcceptCandidateLists ==
    UNION { [1..n -> AcceptRoutes] : n \in 1..MaxRoutes }

AcceptHeaders ==
    { <<>>, MIME_JSON, MIME_ANY, ACCEPT_HTML, ACCEPT_TEXT_THEN_JSON, ACCEPT_HTML_THEN_ANY,
      ACCEPT_JSON_QUALITY }

AcceptRequests ==
    [path : { <<"/", "v", "/", "u", "/", "1">> }, method : {"GET", "POST"},
     accept : AcceptHeaders, contentType : { <<>> }]

NextAccept ==
    \/ \E s \in Rooted, c \in AcceptCandidateLists, req \in AcceptRequests :
          DetectRouteCall(s, c, req)
    \/ EndRequest

SpecAccept == Init /\ [][NextAccept]_vars

-----------------------------------------------------------------------------
(* Registration of a route whose builder and service declare MIME types *)

\* RouteBuilder.copyDefaults: the builder's produces and consumes after it
copyDefaults(produces, consumes, rootProduces, rootConsumes) ==
    [produces |-> IF Len(produces) = 0 THEN rootProduces ELSE produces,
     consumes |-> IF Len(consumes) = 0 THEN rootConsumes ELSE consumes]

\* ws.Produces(rootProduces...).Consumes(rootConsumes...) and then
\* ws.Route(ws.METHOD(subPath).Produces(produces...).Consumes(consumes...).To(fn)),
\* with what was declared kept for the caller
WsRouteCall(s, b, produces, consumes, rootProduces, rootConsumes) ==
    /\ Idle
    /\ Len(ws[s].routes) < MaxRoutes
    /\ ws' = [ws EXCEPT ![s].routes = Append(@, Build(ws[s], b))]
    /\ out' = [kind |-> "Route", service |-> s, spec |-> b, before |-> ws[s].routes,
               builder |-> copyDefaults(produces, consumes, rootProduces, rootConsumes),
               produces |-> produces, consumes |-> consumes,
               rootProduces |-> rootProduces, rootConsumes |-> rootConsumes]
    /\ UNCHANGED <<webServices, regexCache, customVerbCache, fatal>>
    /\ UNCHANGED threadVars

\* the error value nil
NoError == "nil"

\* ws.RemoveRoute(path, method), with the list before it and the error
\* returned kept for the caller
WsRemoveRouteCall(s, path, method) ==
    /\ Idle
    /\ ws' = [ws EXCEPT ![s].routes = RemoveRoute(@, path, method)]
    /\ out' = [kind |-> "RemoveRoute", service |-> s, path |-> path, method |-> method,
               before |-> ws[s].routes, err |-> NoError]
    /\ UNCHANGED <<webServices, regexCache, customVerbCache, fatal>>
    /\ UNCHANGED threadVars

\* the builders of the routes GET and POST /v/u/{i} and GET /v/u/me
BuildSpecs == {b \in RouteSpecs : b.fn \in {"UserGet", "UserUpdate", "UserMe"}}

NextBuild ==
    \/ \E s \in Rooted, b \in BuildSpecs, produces \in MimeLists, consumes \in MimeLists,
          rootProduces \in MimeLists, rootConsumes \in MimeLists :
          WsRouteCall(s, b, produces, consumes, rootProduces, rootConsumes)
    \/ \E s \in Rooted, b \in BuildSpecs :
          WsRemoveRouteCall(s, concatPath(ws[s].rootPath, b.subPath), b.method)
    \/ EndRequest

SpecBuild == Init /\ [][NextBuild]_vars

-----------------------------------------------------------------------------
(* The operations of Container and WebService run step by step by          *)
(* concurrent threads: a step is what a thread does between two lock      *)
(* operations                                                              *)

\* sync.RWMutex: Lock and RLock wait until these hold
CanLock(m) == m.writer = NoThread /\ m.readers = {}

CanRLock(m) == m.writer = NoThread

Lock(m, t) == [m EXCEPT !.writer = t]

Unlock(m) == [m EXCEPT !.writer = NoThread]

RLock(m, t) == [m EXCEPT !.readers = @ \cup {t}]

RUnlock(m, t) == [m EXCEPT !.readers = @ \ {t}]

\* thread t holds m
Holds(m, t) == m.writer = t \/ t \in m.readers

\* thread t enters an operation
AtStart(t) == Idle /\ pc[t] = AtRest

\* thread t is at the step named at
At(t, at) == Idle /\ pc[t].at = at

\* Container.Add(service): c.webServicesLock.Lock()
AddLock(t, s) ==
    /\ AtStart(t)
    /\ Len(webServices) < NumServices
    /\ CanLock(webServicesLock)
    /\ webServicesLock' = Lock(webServicesLock, t)
    /\ pc' = [pc EXCEPT ![t] = [at |-> "Add.check", service |-> s]]
    /\ UNCHANGED <<webServices, ws, regexCache, customVerbCache, fatal, out, loggerLevel, routesLock>>

\* Container.Add: the lazy root path and the loop over the registered services
AddCheck(t) ==
    /\ At(t, "Add.check")
    /\ LET s == pc[t].service
           service == IF Len(ws[s].rootPath) = 0 THEN WithPath(ws[s], <<"/">>) ELSE ws[s]
           duplicate == \E k \in 1..Len(webServices) :
                            (IF webServices[k] = s THEN service ELSE ws[webServices[k]]).rootPath
                                = service.rootPath
       IN /\ ws' = [ws EXCEPT ![s] = service]
          /\ fatal' = (duplicate /\ FatalfExits)
          /\ pc' = IF duplicate /\ FatalfExits THEN pc
                   ELSE [pc EXCEPT ![t].at = "Add.append"]
    /\ UNCHANGED <<webServices, regexCache, customVerbCache, out, loggerLevel,
                   webServicesLock, routesLock>>

\* Container.Add: the append and the deferred Unlock
AddAppend(t) ==
    /\ At(t, "Add.append")
    /\ webServices' = Append(webServices, pc[t].service)
    /\ webServicesLock' = Unlock(webServicesLock)
    /\ pc' = [pc EXCEPT ![t] = AtRest]
    /\ UNCHANGED <<ws, regexCache, customVerbCache, fatal, out, loggerLevel, routesLock>>

\* Container.Remove(service): c.webServicesLock.Lock()
RemoveLock(t, s) ==
    /\ AtStart(t)
    /\ CanLock(webServicesLock)
    /\ webServicesLock' = Lock(webServicesLock, t)
    /\ pc' = [pc EXCEPT ![t] = [at |-> "Remove.filter", service |-> s]]
    /\ UNCHANGED <<webServices, ws, regexCache, customVerbCache, fatal, out, loggerLevel, routesLock>>

\* Container.Remove: the filter and the deferred Unlock
RemoveFilter(t) ==
    /\ At(t, "Remove.filter")
    /\ webServices' = SelectSeq(webServices,
                                LAMBDA each : ws[each].rootPath # ws[pc[t].service].rootPath)
    /\ webServicesLock' = Unlock(webServicesLock)
    /\ pc' = [pc EXCEPT ![t] = AtRest]
    /\ UNCHANGED <<ws, regexCache, customVerbCache, fatal, out, loggerLevel, routesLock>>

\* Container.dispatch: c.webServicesLock.RLock()
DispatchRLock(t, req) ==
    /\ AtStart(t)
    /\ CanRLock(webServicesLock)
    /\ webServicesLock' = RLock(webServicesLock, t)
    /\ pc' = [pc EXCEPT ![t] = [at |-> "dispatch.SelectRoute", req |-> req]]
    /\ UNCHANGED <<webServices, ws, regexCache, customVerbCache, fatal, out, loggerLevel, routesLock>>

SelectRouteReturns_KeepsRLock(t, sel) ==
    /\ regexCache' = sel.st.rc
    /\ customVerbCache' = sel.st.vc
    /\ webServicesLock' = webServicesLock
    /\ pc' = [pc EXCEPT ![t] = [at |-> "dispatch.handle", req |-> pc[t].req,
                                kind |-> sel.kind, status |-> sel.status,
                                route |-> sel.route]]

\* what dispatch goes on with after SelectRoute returned sel
SelectRouteReturns(t, sel) ==
    /\ regexCache' = sel.st.rc
    /\ customVerbCache' = sel.st.vc
    /\ webServicesLock' = RUnlock(webServicesLock, t)
    /\ pc' = [pc EXCEPT ![t] = [at |-> "dispatch.handle", req |-> pc[t].req,
                                kind |-> sel.kind, status |-> sel.status,
                                route |-> sel.route]]

\* Container.dispatch: c.router.SelectRoute and the deferred RUnlock
DispatchSelectRoute(t) ==
    /\ At(t, "dispatch.SelectRoute")
    /\ SelectRouteReturns(t, SelectRoute(webServices, pc[t].req,
                                         [rc |-> regexCache, vc |-> customVerbCache, panic |-> FALSE]))
    /\ UNCHANGED <<webServices, ws, fatal, out, loggerLevel, routesLock>>

\* the service whose routes SelectRoute reads for thread t
DetectedFor(t) ==
    detectWebService(tokenizePath(pc[t].req.path), webServices,
                     [rc |-> regexCache, vc |-> customVerbCache, panic |-> FALSE])

\* thread u is about to write the route list of service s
WritesRoutes(u, s) ==
    /\ pc[u].at \in {"Route.append", "RemoveRoute.filter"}
    /\ pc[u].service = s

\* Container.dispatch: SelectRoute reads ws.routes while another thread
\* writes it; the slice header read is neither the old nor the new one
DispatchSelectRouteTorn(t) ==
    /\ At(t, "dispatch.SelectRoute")
    /\ ~DetectedFor(t).st.panic
    /\ DetectedFor(t).service # NoService
    /\ \E u \in Threads \ {t} : WritesRoutes(u, DetectedFor(t).service)
    /\ webServicesLock' = RUnlock(webServicesLock, t)
    /\ pc' = [pc EXCEPT ![t] = [at |-> "dispatch.handle", req |-> pc[t].req,
                                kind |-> "fault", status |-> 0, route |-> NoRoute]]
    /\ UNCHANGED <<webServices, ws, regexCache, customVerbCache, fatal, out, loggerLevel,
                   routesLock>>

\* Container.dispatch: the error handler or ExtractParameters and the route
\* function, and the return
DispatchHandle(t) ==
    /\ At(t, "dispatch.handle")
    /\ pc' = [pc EXCEPT ![t] = AtRest]
    /\ UNCHANGED <<webServices, ws, regexCache, customVerbCache, fatal, out, loggerLevel,
                   webServicesLock, routesLock>>

\* WebService.Route(builder): w.routesLock.Lock()
RouteLock(t, s, b) ==
    /\ AtStart(t)
    /\ Len(ws[s].routes) < MaxRoutes
    /\ CanLock(routesLock[s])
    /\ routesLock' = [routesLock EXCEPT ![s] = Lock(@, t)]
    /\ pc' = [pc EXCEPT ![t] = [at |-> "Route.append", service |-> s, builder |-> b]]
    /\ UNCHANGED <<webServices, ws, regexCache, customVerbCache, fatal, out, loggerLevel,
                   webServicesLock>>

\* WebService.Route: copyDefaults, Build, the append and the deferred Unlock
RouteAppend(t) ==
    /\ At(t, "Route.append")
    /\ ws' = [ws EXCEPT ![pc[t].service].routes = Append(@, Build(ws[pc[t].service], pc[t].builder))]
    /\ routesLock' = [routesLock EXCEPT ![pc[t].service] = Unlock(@)]
    /\ pc' = [pc EXCEPT ![t] = AtRest]
    /\ UNCHANGED <<webServices, regexCache, customVerbCache, fatal, out, loggerLevel,
                   webServicesLock>>

\* WebService.RemoveRoute(path, method): w.routesLock.Lock()
RemoveRouteLock(t, s, b) ==
    /\ AtStart(t)
    /\ CanLock(routesLock[s])
    /\ routesLock' = [routesLock EXCEPT ![s] = Lock(@, t)]
    /\ pc' = [pc EXCEPT ![t] = [at |-> "RemoveRoute.filter", service |-> s,
                                path |-> concatPath(ws[s].rootPath, b.subPath),
                                method |-> b.method]]
    /\ UNCHANGED <<webServices, ws, regexCache, customVerbCache, fatal, out, loggerLevel,
                   webServicesLock>>

\* WebService.RemoveRoute: the filter and the deferred Unlock
RemoveRouteFilter(t) ==
    /\ At(t, "RemoveRoute.filter")
    /\ ws' = [ws EXCEPT ![pc[t].service].routes = RemoveRoute(@, pc[t].path, pc[t].method)]
    /\ routesLock' = [routesLock EXCEPT ![pc[t].service] = Unlock(@)]
    /\ pc' = [pc EXCEPT ![t] = AtRest]
    /\ UNCHANGED <<webServices, regexCache, customVerbCache, fatal, out, loggerLevel,
                   webServicesLock>>

\* WebService.Routes(): w.routesLock.RLock()
RoutesRLock(t, s) ==
    /\ AtStart(t)
    /\ CanRLock(routesLock[s])
    /\ routesLock' = [routesLock EXCEPT ![s] = RLock(@, t)]
    /\ pc' = [pc EXCEPT ![t] = [at |-> "Routes.copy", service |-> s]]
    /\ UNCHANGED <<webServices, ws, regexCache, customVerbCache, fatal, out, loggerLevel,
                   webServicesLock>>

\* WebService.Routes: the copy and the deferred RUnlock
RoutesCopy(t) ==
    /\ At(t, "Routes.copy")
    /\ routesLock' = [routesLock EXCEPT ![pc[t].service] = RUnlock(@, t)]
    /\ pc' = [pc EXCEPT ![t] = AtRest]
    /\ UNCHANGED <<webServices, ws, regexCache, customVerbCache, fatal, out, loggerLevel,
                   webServicesLock>>

\* the request of the threads
ThreadRequest ==
    [path |-> <<"/", "v", "/", "u", "/", "1">>, method |-> "GET",
     accept |-> <<>>, contentType |-> <<>>]

\* the builder of the threads
ThreadBuilder == CHOOSE b \in RouteSpecs : b.fn = "UserGet"

(* Registration: threads that add and remove services and dispatch, for    *)
(* services with the root /v or none, and a logger that lets FATAL         *)
(* messages through or not                                                 *)

InitRegistry ==
    /\ webServices = <<>>
    /\ ws \in [Services -> {NewWebService, WithPath(NewWebService, V_ROOT)}]
    /\ regexCache = [k \in {} |-> <<>>]
    /\ customVerbCache = {}
    /\ fatal = FALSE
    /\ out = NoOut
    /\ loggerLevel \in {"INFO", "PANIC"}
    /\ webServicesLock = Unlocked
    /\ routesLock = [s \in Services |-> Unlocked]
    /\ pc = [t \in Threads |-> AtRest]

NextRegistry ==
    \/ \E t \in Threads, s \in Services : AddLock(t, s)
    \/ \E t \in Threads : AddCheck(t)
    \/ \E t \in Threads : AddAppend(t)
    \/ \E t \in Threads, s \in Services : RemoveLock(t, s)
    \/ \E t \in Threads : RemoveFilter(t)
    \/ \E t \in Threads : DispatchRLock(t, ThreadRequest)
    \/ \E t \in Threads : DispatchSelectRoute(t)
    \/ \E t \in Threads : DispatchHandle(t)

SpecRegistry == InitRegistry /\ [][NextRegistry]_vars

(* Handlers: the threads of the registration, and route functions and     *)
(* error handlers that add a service to the container they are called by  *)

\* Container.dispatch: the handler called calls Container.Add(service), which
\* starts with c.webServicesLock.Lock()
HandlerAddLock(t, s) ==
    /\ At(t, "dispatch.handle")
    /\ Len(webServices) < NumServices
    /\ CanLock(webServicesLock)
    /\ webServicesLock' = Lock(webServicesLock, t)
    /\ pc' = [pc EXCEPT ![t] = [at |-> "Add.check", service |-> s]]
    /\ UNCHANGED <<webServices, ws, regexCache, customVerbCache, fatal, out, loggerLevel, routesLock>>

NextHandlers ==
    \/ NextRegistry
    \/ \E t \in Threads, s \in Services : HandlerAddLock(t, s)

SpecHandlers == InitRegistry /\ [][NextHandlers]_vars

(* Selecting: threads that dispatch against a registry that holds the      *)
(* service /v with the route of the threads' builder, and that no thread   *)
(* changes                                                                 *)

SelectingRequests ==
    { [path |-> urlPath, method |-> "GET", accept |-> <<>>, contentType |-> <<>>] :
          urlPath \in { <<"/", "v", "/", "u", "/", "1">>,
                        <<"/", "v", "/", "u", "/", "1", ":", "d">>,
                        <<"/", "v", "/", "u", "/", "1", ":", "g">> } }

InitSelecting ==
    /\ webServices = <<1>>
    /\ ws = [s \in Services |->
                IF s = 1
                THEN [WithPath(NewWebService, V_ROOT) EXCEPT
                         !.routes = <<Build(WithPath(NewWebService, V_ROOT), ThreadBuilder)>>]
                ELSE NewWebService]
    /\ regexCache = [k \in {} |-> <<>>]
    /\ customVerbCache = {}
    /\ fatal = FALSE
    /\ out = NoOut
    /\ InitThreads

NextSelecting ==
    \/ \E t \in Threads, req \in SelectingRequests : DispatchRLock(t, req)
    \/ \E t \in Threads : DispatchSelectRoute(t)
    \/ \E t \in Threads : DispatchHandle(t)

SpecSelecting == InitSelecting /\ [][NextSelecting]_vars

(* Routes: threads that register and remove routes of the service /v, read *)
(* them and dispatch                                                       *)

NextRoutes ==
    \/ \E t \in Threads, s \in Rooted : AddLock(t, s)
    \/ \E t \in Threads : AddCheck(t)
    \/ \E t \in Threads : AddAppend(t)
    \/ \E t \in Threads, s \in Rooted : RouteLock(t, s, ThreadBuilder)
    \/ \E t \in Threads : RouteAppend(t)
    \/ \E t \in Threads, s \in Rooted : RemoveRouteLock(t, s, ThreadBuilder)
    \/ \E t \in Threads : RemoveRouteFilter(t)
    \/ \E t \in Threads, s \in Rooted : RoutesRLock(t, s)
    \/ \E t \in Threads : RoutesCopy(t)
    \/ \E t \in Threads : DispatchRLock(t, ThreadRequest)
    \/ \E t \in Threads : DispatchSelectRoute(t)
    \/ \E t \in Threads : DispatchSelectRouteTorn(t)
    \/ \E t \in Threads : DispatchHandle(t)

SpecRoutes == Init /\ [][NextRoutes]_vars

-----------------------------------------------------------------------------
(* WebService.Path, the creation of a builder and WebService.Route as      *)
(* calls of their own: a thread holds the builder it created until it      *)
(* hands it to Route                                                       *)

W_ROOT == <<"/", "w">>

\* the roots given to WebService.Path; the empty root stands for "/"
PathRoots == { V_ROOT, W_ROOT, <<>> }

\* ws.METHOD(subPath).To(fn): servicePath(w.rootPath) keeps the root of the moment
NewRouteBuilder(t, s, b) ==
    /\ AtStart(t)
    /\ pc' = [pc EXCEPT ![t] = [at |-> "Route", service |-> s, builder |-> b,
                                rootPath |-> ws[s].rootPath]]
    /\ UNCHANGED <<webServices, ws, regexCache, customVerbCache, fatal, out, loggerLevel,
                   webServicesLock, routesLock>>

\* ws.Route(builder), from Lock to the deferred Unlock: Build joins the
\* builder's root and its path
RouteOfBuilder(t) ==
    /\ At(t, "Route")
    /\ Len(ws[pc[t].service].routes) < MaxRoutes
    /\ CanLock(routesLock[pc[t].service])
    /\ ws' = [ws EXCEPT ![pc[t].service].routes =
                 Append(@, Build([rootPath |-> pc[t].rootPath], pc[t].builder))]
    /\ pc' = [pc EXCEPT ![t] = AtRest]
    /\ UNCHANGED <<webServices, regexCache, customVerbCache, fatal, out, loggerLevel,
                   webServicesLock, routesLock>>

NextPath ==
    \/ \E root \in PathRoots : WsPath(1, root)
    \/ \E t \in Threads : NewRouteBuilder(t, 1, ThreadBuilder)
    \/ \E t \in Threads : RouteOfBuilder(t)

SpecPath == Init /\ [][NextPath]_vars

-----------------------------------------------------------------------------
(* Container.Dispatch with and without writer and request *)

\* a nil http.ResponseWriter or *http.Request
Nil == [nil |-> TRUE]

\* a http.ResponseWriter
TheWriter == [nil |-> FALSE]

DispatchPaths ==
    { <<"/", "v", "/", "u", "/", "1">>, <<"/", "v", "/", "u", "/", "x", ":">>, <<"/", "w">> }

DispatchRequests ==
    [path : DispatchPaths, method : {"GET", "PUT"}, accept : {<<>>}, contentType : {<<>>}]

\* Container.Dispatch(w, r) with w or r nil: the panic before dispatch
DispatchNil(w, r) ==
    /\ Idle
    /\ w = Nil \/ r = Nil
    /\ out' = [kind |-> "nil", writer |-> w, req |-> r, called |-> "none"]
    /\ UNCHANGED <<webServices, ws, regexCache, customVerbCache, fatal>>
    /\ UNCHANGED threadVars

NextDispatch ==
    \/ \E s \in Rooted, b \in NegotiationSpecs : WsRoute(s, b, <<>>, <<>>)
    \/ \E s \in Rooted : Add(s)
    \/ \E s \in Rooted : Remove(s)
    \/ \E req \in DispatchRequests : Dispatch(req)
    \/ \E w \in {Nil, TheWriter}, r \in {Nil} \cup DispatchRequests : DispatchNil(w, r)
    \/ EndRequest

SpecDispatch == Init /\ [][NextDispatch]_vars

-----------------------------------------------------------------------------
(* defaultPathProcessor.ExtractParameters called on its own *)

\* the builders of RouteSpecs, and builders with a token behind the wildcard
\* and with a constraint and a custom verb
ExtractSpecs ==
    RouteSpecs \cup
    { [method |-> "GET", subPath |-> <<"/", "f", "/", "{", "p", ":", "*", "}", "/", "{", "i", "}">>, fn |-> "FileItem"],
      [method |-> "GET", subPath |-> <<"/", "u", "/", "{", "i", ":", "[", "0", "-", "9", "]", "+", "}", ":", "g">>, fn |-> "UserNumVerbGet"] }

ExtractRoutes == { Build(WithPath(NewWebService, V_ROOT), b) : b \in ExtractSpecs }

ExtractPaths ==
    RequestPaths \cup
    { <<"/", "v", "/", "u">>,
      <<"/", "v", "/", "u", "/", "1", "/", "p">>,
      <<"/", "v", "/", "u", "/", "a", "/", "b", ":", "g">>,
      <<"/", "v", "/", "u", "/", "1", "2", ":", "g">>,
      <<"/", "v", "/", "f">>,
      <<"/", "v", "/", "f", "/", "a", "/", "/", "b", "/">> }

ExtractParametersCall(r, urlPath) ==
    /\ Idle
    /\ out' = [kind |-> "ExtractParameters", route |-> r, urlPath |-> urlPath,
               result |-> ExtractParameters(r, urlPath)]
    /\ UNCHANGED <<webServices, ws, regexCache, customVerbCache, fatal>>
    /\ UNCHANGED threadVars

NextExtract ==
    \/ \E r \in ExtractRoutes, urlPath \in ExtractPaths : ExtractParametersCall(r, urlPath)
    \/ EndRequest

SpecExtract == Init /\ [][NextExtract]_vars

-----------------------------------------------------------------------------
(* CurlyRouter.selectRoutes called on its own, on a service that starts    *)
(* with the routes of TestSelectRoutes and a route with a wildcard         *)

SelectSpecs ==
    << [method |-> "GET",  subPath |-> <<"/", "u">>, fn |-> "Users"],
       [method |-> "GET",  subPath |-> <<"/", "u", "/", "{", "i", "}">>, fn |-> "UserGet"],
       [method |-> "POST", subPath |-> <<"/", "u">>, fn |-> "UserCreate"],
       [method |-> "GET",  subPath |-> <<"/", "u", "/", "{", "i", "}", "/", "p">>, fn |-> "UserPets"],
       [method |-> "GET",  subPath |-> <<"/", "f", "/", "{", "p", "}", "/", "{", "i", "}">>, fn |-> "FileItem"],
       [method |-> "GET",  subPath |-> <<"/", "f", "/", "{", "p", ":", "*", "}">>, fn |-> "FileGet"] >>

SelectPaths ==
    { <<"/", "v", "/", "u">>,
      <<"/", "v", "/", "u", "/", "1">>,
      <<"/", "v", "/", "u", "/", "1", "/", "p">>,
      <<"/", "v", "/", "u", "/", "a", ":", "*", "b">>,
      <<"/", "v", "/", "u", "/", "a", ":", "*", "b", "/", "x">>,
      <<"/", "v", "/", "f", "/", "a">>,
      <<"/", "v", "/", "f", "/", "a", "/", "b">>,
      <<"/", "v">> }

InitSelect ==
    /\ webServices = <<>>
    /\ ws = [s \in Services |->
                IF s = 1
                THEN [WithPath(NewWebService, V_ROOT) EXCEPT
                         !.routes = [k \in 1..Len(SelectSpecs) |->
                                        Build(WithPath(NewWebService, V_ROOT), SelectSpecs[k])]]
                ELSE NewWebService]
    /\ regexCache = [k \in {} |-> <<>>]
    /\ customVerbCache = {}
    /\ fatal = FALSE
    /\ out = NoOut
    /\ InitThreads

\* router.selectRoutes(ws, tokenizePath(urlPath))
SelectRoutesCall(s, urlPath) ==
    /\ Idle
    /\ LET c == selectRoutes(s, tokenizePath(urlPath),
                             [rc |-> regexCache, vc |-> customVerbCache, panic |-> FALSE])
       IN /\ regexCache' = c.st.rc
          /\ customVerbCache' = c.st.vc
          /\ out' = [kind |-> "selectRoutes", service |-> s, urlPath |-> urlPath,
                     panic |-> c.st.panic, matched |-> c.matched, candidates |-> c.candidates]
    /\ UNCHANGED <<webServices, ws, fatal>>
    /\ UNCHANGED threadVars

NextSelect ==
    \/ \E s \in Rooted, k \in 1..Len(SelectSpecs) :
          WsRemoveRoute(s, concatPath(ws[s].rootPath, SelectSpecs[k].subPath),
                        SelectSpecs[k].method)
    \/ \E s \in Rooted, urlPath \in SelectPaths : SelectRoutesCall(s, urlPath)
    \/ EndRequest

SpecSelect == InitSelect /\ [][NextSelect]_vars

-----------------------------------------------------------------------------
(* tokenizePath called on its own *)

StringsUpTo(alphabet, n) == UNION { [1..k -> alphabet] : k \in 0..n }

TokenizePaths == StringsUpTo({"/", "a", "b"}, MaxPathLen)

\* tokenizePath(path)
TokenizePathCall(path) ==
    /\ Idle
    /\ out' = [kind |-> "tokenizePath", path |-> path, tokens |-> tokenizePath(path)]
    /\ UNCHANGED <<webServices, ws, regexCache, customVerbCache, fatal>>
    /\ UNCHANGED threadVars

NextTokenize ==
    \/ Idle /\ \E path \in TokenizePaths : TokenizePathCall(path)
    \/ EndRequest

SpecTokenize == Init /\ [][NextTokenize]_vars

-----------------------------------------------------------------------------
(* templateToRegExp called on its own *)

\* strings.TrimSpace, the blank being the only white space of the templates
TrimSpace(s) == Trim(s, " ")

\* the characters regexp.QuoteMeta escapes
QuoteMetaChars == {"\\", ".", "+", "*", "?", "(", ")", "|", "[", "]", "{", "}", "^", "$"}

RECURSIVE QuoteMeta(_)
QuoteMeta(s) ==
    IF s = <<>> THEN <<>>
    ELSE (IF Head(s) \in QuoteMetaChars THEN <<"\\", Head(s)>> ELSE <<Head(s)>>)
             \o QuoteMeta(Tail(s))

\* the tokenization templateToRegExp calls
TokenizePath(template) == tokenizePath(template)

VarFragment_ExprVerbatim(each) ==
    IF Index(each, ":") # 0
    THEN [varName |-> TrimSpace(SubSeq(each, 2, Index(each, ":") - 1)),
          text |-> <<"(">> \o TrimSpace(SubSeq(each, Index(each, ":") + 1, Len(each) - 1)) \o <<")">>]
    ELSE [varName |-> TrimSpace(SubSeq(each, 2, Len(each) - 1)),
          text |-> <<"(", "[", "^", "/", "]", "+", "?", ")">>]

\* the name of a variable token and what it writes to the expression
VarFragment(each) ==
    IF Index(each, ":") # 0
    THEN [varName |-> TrimSpace(SubSeq(each, 2, Index(each, ":") - 1)),
          text |-> IF TrimSpace(SubSeq(each, Index(each, ":") + 1, Len(each) - 1)) = <<"*">>
                   THEN <<"(", ".", "*", ")">>
                   ELSE <<"(">> \o TrimSpace(SubSeq(each, Index(each, ":") + 1, Len(each) - 1))
                            \o <<")">>]
    ELSE [varName |-> TrimSpace(SubSeq(each, 2, Len(each) - 1)),
          text |-> <<"(", "[", "^", "/", "]", "+", "?", ")">>]

\* one turn of the loop over the tokens
TemplateStep(acc, each) ==
    IF each = <<>> THEN acc
    ELSE IF HasPrefix(each, <<"{">>)
    THEN [buf |-> acc.buf \o <<"/">> \o VarFragment(each).text,
          literalCount |-> acc.literalCount,
          varNames |-> Append(acc.varNames, VarFragment(each).varName),
          varCount |-> acc.varCount + 1]
    ELSE [buf |-> acc.buf \o <<"/">> \o QuoteMeta(each),
          literalCount |-> acc.literalCount + Len(each),
          varNames |-> acc.varNames,
          varCount |-> acc.varCount]

RECURSIVE TemplateLoop(_, _, _)
TemplateLoop(tokens, k, acc) ==
    IF k > Len(tokens) THEN acc
    ELSE TemplateLoop(tokens, k + 1, TemplateStep(acc, tokens[k]))

templateToRegExp(template) ==
    LET r == TemplateLoop(TokenizePath(template), 1,
                          [buf |-> <<"^">>, literalCount |-> 0, varNames |-> <<>>, varCount |-> 0])
    IN [expression |-> TrimRight(r.buf, "/") \o <<"(", "/", ".", "*", ")", "?", "$">>,
        literalCount |-> r.literalCount,
        varNames |-> r.varNames,
        varCount |-> r.varCount,
        tokens |-> TokenizePath(template)]

TemplateTokens ==
    { <<>>, <<"a">>, <<"b", ".", "c">>, <<"{", "i", "}">>, <<"{", "j", "}">>, <<"{", "p", ":", "*", "}">>, <<"{", "i", ":", "a", "+", "}">> }

Templates ==
    { lead \o Join(tokens, <<"/">>) :
          lead \in { <<>>, <<"/">> },
          tokens \in UNION { [1..k -> TemplateTokens] : k \in 0..MaxTokens } }

\* templateToRegExp(template)
TemplateToRegExpCall(template) ==
    /\ Idle
    /\ out' = [kind |-> "templateToRegExp", template |-> template,
               result |-> templateToRegExp(template)]
    /\ UNCHANGED <<webServices, ws, regexCache, customVerbCache, fatal>>
    /\ UNCHANGED threadVars

NextTemplate ==
    \/ Idle /\ \E template \in Templates : TemplateToRegExpCall(template)
    \/ EndRequest

SpecTemplate == Init /\ [][NextTemplate]_vars

-----------------------------------------------------------------------------
(* the custom verb functions called on their own *)

VerbTokens == StringsUpTo({"u", ":", "1"}, MaxTokenLen)

\* hasCustomVerb(routeToken)
HasCustomVerbCall(routeToken) ==
    /\ Idle
    /\ out' = [kind |-> "hasCustomVerb", routeToken |-> routeToken,
               result |-> hasCustomVerb(routeToken)]
    /\ UNCHANGED <<webServices, ws, regexCache, customVerbCache, fatal>>
    /\ UNCHANGED threadVars

\* removeCustomVerb(str)
RemoveCustomVerbCall(str) ==
    /\ Idle
    /\ out' = [kind |-> "removeCustomVerb", str |-> str, result |-> removeCustomVerb(str)]
    /\ UNCHANGED <<webServices, ws, regexCache, customVerbCache, fatal>>
    /\ UNCHANGED threadVars

\* isMatchCustomVerb(routeToken, pathToken)
IsMatchCustomVerbCall(routeToken, pathToken) ==
    /\ Idle
    /\ out' = [kind |-> "isMatchCustomVerb", routeToken |-> routeToken,
               pathToken |-> pathToken, result |-> isMatchCustomVerb(routeToken, pathToken)]
    /\ customVerbCache' = VerbCacheAfter(customVerbCache, routeToken)
    /\ UNCHANGED <<webServices, ws, regexCache, fatal>>
    /\ UNCHANGED threadVars

NextVerb ==
    \/ Idle /\ \E routeToken \in VerbTokens : HasCustomVerbCall(routeToken)
    \/ Idle /\ \E str \in VerbTokens : RemoveCustomVerbCall(str)
    \/ Idle /\ \E routeToken \in VerbTokens, pathToken \in VerbTokens :
                  IsMatchCustomVerbCall(routeToken, pathToken)
    \/ EndRequest

SpecVerb == Init /\ [][NextVerb]_vars

-----------------------------------------------------------------------------
(* Route.matchesContentType called on its own *)

MIME_JSON_UTF8 == <<"a", "p", "p", "l", "i", "c", "a", "t", "i", "o", "n", "/", "j", "s", "o", "n", ";", " ", "c", "h", "a", "r", "s", "e", "t", "=", "u", "t", "f", "-", "8">>

MimeMethods == {"GET", "HEAD", "OPTIONS", "DELETE", "TRACE", "POST", "PUT", "PATCH"}

ConsumesLists ==
    { <<>>, <<MIME_JSON>>, <<MIME_ANY>>, <<MIME_TEXT, MIME_JSON>>, <<MIME_OCTET>> }

\* the fields of a Route that matchesContentType reads
MimeRoutes == [Method : MimeMethods, Consumes : ConsumesLists]

\* values of the Content-Type header; <<>> is a request without the header
ContentTypeHeaders ==
    { <<>>, MIME_JSON, MIME_JSON_UTF8, MIME_TEXT, <<" ">> \o MIME_TEXT \o <<" ">> }

\* r.matchesContentType(mimeTypes)
MatchesContentTypeCall(r, mimeTypes) ==
    /\ Idle
    /\ out' = [kind |-> "matchesContentType", route |-> r, mimeTypes |-> mimeTypes,
               result |-> matchesContentType(r, mimeTypes)]
    /\ UNCHANGED <<webServices, ws, regexCache, customVerbCache, fatal>>
    /\ UNCHANGED threadVars

NextMime ==
    \/ \E r \in MimeRoutes, mimeTypes \in ContentTypeHeaders : MatchesContentTypeCall(r, mimeTypes)
    \/ EndRequest

SpecMime == Init /\ [][NextMime]_vars

-----------------------------------------------------------------------------
(* Properties *)

Served == out # NoOut

RequestTokens == tokenizePath(out.req.path)

\* the route passes the method, Content-Type and Accept filters of the request served
PassesFilters(c) ==
    /\ c.Method = out.req.method
    /\ matchesContentType(c, out.req.contentType)
    /\ matchesAccept(c, IF Len(out.req.accept) = 0 THEN MIME_ANY ELSE out.req.accept)

Selected == Served /\ out.route # NoRoute

\* the literal tokens of the route that equal the request token at their position
LiteralMatches(r) ==
    {i \in 1..Min(Len(r.pathParts), Len(RequestTokens)) :
        /\ ~HasPrefix(r.pathParts[i], <<"{">>)
        /\ r.pathParts[i] = RequestTokens[i]}

\* C1: the selected route is never one that some other candidate passing the
\* method and content filters beats on literal tokens matched: of two passing
\* candidates the one that matched strictly more literal tokens is returned,
\* whatever the registration order.
C1_MostStaticWins ==
    Selected =>
        \A k \in 1..Len(out.matched) :
            PassesFilters(out.matched[k]) =>
                Cardinality(LiteralMatches(out.matched[k]))
                    <= Cardinality(LiteralMatches(out.route))

\* a ranks at or before b by descending staticCount, then descending paramCount
SameCounts(a, b) == a.staticCount = b.staticCount /\ a.paramCount = b.paramCount

CountsBefore(a, b) ==
    \/ a.staticCount > b.staticCount
    \/ a.staticCount = b.staticCount /\ a.paramCount > b.paramCount

\* C2 as claimed: candidates are ordered by descending staticCount, descending
\* paramCount, then ascending Path, and among passing candidates with the
\* counts of the selected route the lexicographically smallest Path is selected.
C2_AscendingPath ==
    /\ Served =>
          \A k \in 1..(Len(out.candidates) - 1) :
              \/ CountsBefore(out.candidates[k], out.candidates[k + 1])
              \/ /\ SameCounts(out.candidates[k], out.candidates[k + 1])
                 /\ ~StrLess(out.candidates[k + 1].Path, out.candidates[k].Path)
    /\ Selected =>
          \A k \in 1..Len(out.matched) :
              (PassesFilters(out.matched[k]) /\ SameCounts(out.matched[k], out.route))
                  => ~StrLess(out.matched[k].Path, out.route.Path)

\* C2 amended: candidates are ordered by descending staticCount, descending
\* paramCount, then descending Path, and among passing candidates with the
\* counts of the selected route the lexicographically greatest Path is selected.
C2_DescendingPath ==
    /\ Served =>
          \A k \in 1..(Len(out.candidates) - 1) :
              \/ CountsBefore(out.candidates[k], out.candidates[k + 1])
              \/ /\ SameCounts(out.candidates[k], out.candidates[k + 1])
                 /\ ~StrLess(out.candidates[k].Path, out.candidates[k + 1].Path)
    /\ Selected =>
          \A k \in 1..Len(out.matched) :
              PassesFilters(out.matched[k]) =>
                  \/ CountsBefore(out.route, out.matched[k])
                  \/ /\ SameCounts(out.matched[k], out.route)
                     /\ ~StrLess(out.route.Path, out.matched[k].Path)

\* C2 witness: two passing candidates with equal counts and different Paths,
\* the greater Path registered last, and it is the one selected
C2_Witness ==
    /\ Selected
    /\ \E i, j \in 1..Len(out.matched) :
          /\ i < j
          /\ PassesFilters(out.matched[i]) /\ PassesFilters(out.matched[j])
          /\ SameCounts(out.matched[i], out.matched[j])
          /\ StrLess(out.matched[i].Path, out.matched[j].Path)
          /\ out.route = out.matched[j]

\* C3: route selection never raises a runtime fault: every request served
\* ends with a selected route or a Service Error.
C3_NoRuntimeFault == Served => out.kind # "panic"

\* a variable token {name:expr} with expr other than *
IsConstrained(tok) ==
    /\ HasPrefix(tok, <<"{">>)
    /\ HasSuffix(tok, <<"}">>)
    /\ Index(tok, ":") # 0
    /\ SubSeq(tok, Index(tok, ":") + 1, Len(tok) - 1) # <<"*">>

ExprOf(tok) == SubSeq(tok, Index(tok, ":") + 1, Len(tok) - 1)

NUMERIC == <<"[", "0", "-", "9", "]", "+">>

\* the request token satisfies the constraint (regexp.MatchString(expr, token))
Satisfies(expr, tok) ==
    IF expr = NUMERIC THEN \E i \in 1..Len(tok) : tok[i] \in Digits ELSE FALSE

\* C4: every candidate route satisfies its regex constraints: at each position
\* where the route has {name:expr}, expr other than *, the request token
\* matches expr.
C4_ConstraintValidated ==
    (Served /\ out.kind # "panic") =>
        \A k \in 1..Len(out.matched) :
            \A i \in 1..Len(out.matched[k].pathParts) :
                IsConstrained(out.matched[k].pathParts[i]) =>
                    /\ i <= Len(RequestTokens)
                    /\ Satisfies(ExprOf(out.matched[k].pathParts[i]), RequestTokens[i])

\* a final variable token {name:*}
IsWildcard(tok) == HasPrefix(tok, <<"{">>) /\ HasSuffix(tok, <<":", "*", "}">>)

\* C5: a route whose final token is {name:*} is a candidate for every request
\* whose leading tokens equal the route's preceding tokens and that has a token
\* at the wildcard position, also when the request is longer than the route;
\* when it is selected, name is the rest of the path joined by "/".
C5_WildcardPrefixMatch ==
    (Served /\ out.kind # "panic" /\ out.service # NoService) =>
        \A k \in 1..Len(ws[out.service].routes) :
            LET r == ws[out.service].routes[k]
                n == Len(r.pathParts)
                name == SubSeq(r.pathParts[n], 2, Len(r.pathParts[n]) - 3)
            IN (/\ n >= 1
                /\ IsWildcard(r.pathParts[n])
                /\ Len(RequestTokens) >= n
                /\ \A i \in 1..(n - 1) : r.pathParts[i] = RequestTokens[i])
               => /\ \E m \in 1..Len(out.matched) :
                        out.matched[m].Path = r.Path /\ out.matched[m].Method = r.Method
                  /\ (out.route # NoRoute /\ out.route.Path = r.Path) =>
                        /\ name \in DOMAIN out.params
                        /\ out.params[name] = unTokenizePath(n, RequestTokens)

\* the route's final token is {name}:V and its Path ends in the verb
EndsInVerb(r) ==
    /\ Len(r.pathParts) >= 1
    /\ hasCustomVerb(r.Path)
    /\ hasCustomVerb(r.pathParts[Len(r.pathParts)])

VerbOf(r) == CustomVerbOf(r.pathParts[Len(r.pathParts)])

\* the request token is t:V with t non-empty and free of ":"
PlainWithVerb(tok, verb) ==
    /\ HasSuffix(tok, <<":">> \o verb)
    /\ Len(tok) > Len(verb) + 1
    /\ \A i \in 1..(Len(tok) - Len(verb) - 1) : tok[i] # ":"

\* C6: a route whose final token declares custom verb V is a candidate only for
\* requests whose token at that position ends in :V; for a route .../{name}:V
\* with literal leading tokens it is a candidate for the request .../t:V, and
\* when it is selected the extracted name is t, the verb stripped.
C6_CustomVerb ==
    (Served /\ out.kind # "panic") =>
        /\ \A k \in 1..Len(out.matched) :
              EndsInVerb(out.matched[k]) =>
                  /\ Len(RequestTokens) >= Len(out.matched[k].pathParts)
                  /\ HasSuffix(RequestTokens[Len(out.matched[k].pathParts)],
                               <<":">> \o VerbOf(out.matched[k]))
        /\ out.service # NoService =>
              \A k \in 1..Len(ws[out.service].routes) :
                  LET r == ws[out.service].routes[k]
                      n == Len(r.pathParts)
                      var == removeCustomVerb(r.pathParts[n])
                      name == SubSeq(var, 2, Len(var) - 1)
                  IN (/\ EndsInVerb(r)
                      /\ HasPrefix(var, <<"{">>) /\ HasSuffix(var, <<"}">>)
                      /\ Index(var, ":") = 0
                      /\ Len(RequestTokens) = n
                      /\ \A i \in 1..(n - 1) : r.pathParts[i] = RequestTokens[i]
                      /\ PlainWithVerb(RequestTokens[n], VerbOf(r)))
                     => /\ \E m \in 1..Len(out.matched) :
                              /\ out.matched[m].Path = r.Path
                              /\ out.matched[m].Method = r.Method
                        /\ (out.route # NoRoute /\ out.route.Path = r.Path) =>
                              /\ DOMAIN out.params = {name}
                              /\ out.params[name] = removeCustomVerb(RequestTokens[n])

\* the methods of the routes, each once, in the order of first occurrence
DistinctMethods(routes) ==
    LET first == {k \in 1..Len(routes) : \A j \in 1..(k - 1) : routes[j].Method # routes[k].Method}
        F[n \in 0..Len(routes)] ==
            IF n = 0 THEN <<>>
            ELSE IF n \in first THEN Append(F[n - 1], routes[n].Method) ELSE F[n - 1]
    IN F[Len(routes)]

MethodMismatch ==
    /\ Served /\ out.kind # "panic"
    /\ Len(out.matched) > 0
    /\ \A k \in 1..Len(out.matched) : out.matched[k].Method # out.req.method

\* C7 as claimed: on a method mismatch the result is 405 and Allow lists the
\* distinct methods of the path-matching routes in the order in which those
\* routes were registered.
C7_AllowInRegistrationOrder ==
    MethodMismatch =>
        /\ out.kind = "error" /\ out.status = 405
        /\ out.allow = DistinctMethods(out.matched)

\* C7 amended: on a method mismatch the result is 405 and Allow lists exactly
\* the distinct methods of the path-matching routes, each once, in the order
\* of the ranked candidate list (descending staticCount, paramCount, Path).
C7_AllowInRankOrder ==
    /\ MethodMismatch =>
          /\ out.kind = "error" /\ out.status = 405
          /\ out.allow = DistinctMethods(out.candidates)
          /\ {out.allow[k] : k \in 1..Len(out.allow)}
                = {out.matched[k].Method : k \in 1..Len(out.matched)}
    /\ (Served /\ out.status = 405) => MethodMismatch

\* C7 witness: a 405 whose Allow has two methods in rank order, which is not
\* the order of registration
C7_Witness ==
    /\ MethodMismatch
    /\ out.status = 405
    /\ Len(out.allow) = 2
    /\ out.allow # DistinctMethods(out.matched)

\* C8: the stages run in the order service, candidates, method, Content-Type,
\* Accept, and the error is that of the first stage without survivors.
C8_StageOrder ==
    (Served /\ out.kind # "panic") =>
        LET hasMethod == \E k \in 1..Len(out.matched) :
                            out.matched[k].Method = out.req.method
            hasContentType == \E k \in 1..Len(out.matched) :
                            /\ out.matched[k].Method = out.req.method
                            /\ matchesContentType(out.matched[k], out.req.contentType)
            hasAccept == \E k \in 1..Len(out.matched) : PassesFilters(out.matched[k])
        IN /\ out.service = NoService => (out.status = 404 /\ Len(out.matched) = 0)
           /\ Len(out.matched) = 0 => out.status = 404
           /\ (Len(out.matched) > 0 /\ ~hasMethod) => out.status = 405
           /\ (hasMethod /\ ~hasContentType) => out.status = 415
           /\ (hasContentType /\ ~hasAccept) => out.status = 406
           /\ hasAccept => (out.status = 0 /\ out.route # NoRoute)
           /\ out.status \in {415, 406} => hasMethod
           /\ out.status # 0 => (out.kind = "error" /\ out.route = NoRoute)

\* C8 witness: a request that passes the method stage and fails both the
\* Content-Type and the Accept stage gets 415
C8_Witness ==
    /\ Served
    /\ out.status = 415
    /\ Len(out.matched) >= 2
    /\ \E k \in 1..Len(out.matched) : out.matched[k].Method = out.req.method
    /\ Len(out.req.accept) > 0
    /\ \A k \in 1..Len(out.matched) :
          /\ ~matchesContentType(out.matched[k], out.req.contentType)
          /\ ~matchesAccept(out.matched[k], out.req.accept)

\* the root tokens match the leading request tokens
RootMatches(rootTokens, requestTokens) ==
    /\ Len(rootTokens) <= Len(requestTokens)
    /\ \A i \in 1..Len(rootTokens) :
          IF HasPrefix(rootTokens[i], <<"{">>)
          THEN Len(requestTokens[i]) > 0
          ELSE rootTokens[i] = requestTokens[i]

\* C9: a request whose tokens match the root tokens of no registered service
\* (the registry may be empty) gets a 404 Service Error with no service and no
\* route, and no route handler is invoked.
C9_NoServiceIs404 ==
    (/\ Served
     /\ \A k \in 1..Len(webServices) : ~RootMatches(ws[webServices[k]].tokens, RequestTokens))
    => /\ out.kind = "error" /\ out.status = 404
       /\ out.service = NoService /\ out.route = NoRoute
       /\ out.called = "serviceErrorHandleFunc"

\* C9 witness: a service with routes is registered and the request is outside
\* its root
C9_Witness ==
    /\ Served
    /\ Len(webServices) > 0
    /\ \A k \in 1..Len(webServices) :
          /\ ~RootMatches(ws[webServices[k]].tokens, RequestTokens)
          /\ Len(ws[webServices[k]].routes) > 0
    /\ out.status = 404

\* the score of C10: (n - i) * 10 for a literal root token at index i of n,
\* 1 for a variable root token, 1 more when its constraint is satisfied
ClaimedScore(rootTokens, requestTokens) ==
    LET n == Len(rootTokens)
        F[k \in 0..n] ==
            IF k = 0 THEN 0
            ELSE F[k - 1] +
                 (IF HasPrefix(rootTokens[k], <<"{">>)
                  THEN 1 + (IF /\ IsConstrained(rootTokens[k])
                               /\ Satisfies(ExprOf(rootTokens[k]), requestTokens[k])
                            THEN 1 ELSE 0)
                  ELSE (n - (k - 1)) * 10)
    IN F[n]

\* C10: the detected service is, among the registered services whose root
\* tokens match, the one with the highest claimed score, the earliest
\* registered on equal scores; none when no root matches.
C10_ServiceByScore ==
    Served =>
        LET matching == {k \in 1..Len(webServices) :
                            RootMatches(ws[webServices[k]].tokens, RequestTokens)}
            score(k) == ClaimedScore(ws[webServices[k]].tokens, RequestTokens)
        IN IF matching = {} THEN out.service = NoService
           ELSE \E k \in matching :
                   /\ out.service = webServices[k]
                   /\ \A j \in matching :
                         \/ score(j) < score(k)
                         \/ (score(j) = score(k) /\ k <= j)

-----------------------------------------------------------------------------
(* Properties of content negotiation *)

ContentTypeChecked == out.kind = "matchesContentType"

\* the MIME type of a header value: parameters after ";" dropped, spaces trimmed
MimeOf(header) ==
    LET semi == {i \in 1..Len(header) : header[i] = ";"}
        first == IF semi = {} THEN Len(header) + 1
                 ELSE CHOOSE i \in semi : \A j \in semi : i <= j
    IN Trim(SubSeq(header, 1, first - 1), " ")

Declares(list, mimeType) == \E k \in 1..Len(list) : list[k] = mimeType

\* C11: for a route with a non-empty Consumes list and a request that declares
\* a Content-Type, matchesContentType is true iff the request's MIME type is
\* one of the Consumes entries or Consumes holds the wildcard */*.
C11_ContentTypeDecides ==
    (/\ ContentTypeChecked
     /\ Len(out.route.Consumes) > 0
     /\ Len(out.mimeTypes) > 0)
    => out.result = (\/ Declares(out.route.Consumes, MimeOf(out.mimeTypes))
                     \/ Declares(out.route.Consumes, MIME_ANY))

ExemptMethods == {"GET", "HEAD", "OPTIONS", "DELETE", "TRACE"}

\* C12: matchesContentType is true for every route with an empty Consumes
\* list, and for a GET, HEAD, OPTIONS, DELETE or TRACE route when the request
\* has no Content-Type, whatever it consumes; a POST, PUT or PATCH route with
\* a non-empty Consumes list is not exempted: without a Content-Type it
\* matches only when it consumes */* or the default type MIME_OCTET.
C12_EmptyConsumesAndExemption ==
    ContentTypeChecked =>
        /\ Len(out.route.Consumes) = 0 => out.result
        /\ (Len(out.mimeTypes) = 0 /\ out.route.Method \in ExemptMethods) => out.result
        /\ (/\ Len(out.mimeTypes) = 0
            /\ out.route.Method \in {"POST", "PUT", "PATCH"}
            /\ Len(out.route.Consumes) > 0)
           => out.result = (\/ Declares(out.route.Consumes, MIME_OCTET)
                            \/ Declares(out.route.Consumes, MIME_ANY))

\* C12 witness: a GET route that consumes application/json only matches a
\* request without Content-Type
C12_Witness ==
    /\ ContentTypeChecked
    /\ out.route = [Method |-> "GET", Consumes |-> <<MIME_JSON>>]
    /\ out.mimeTypes = <<>>
    /\ out.result

\* the entries of an Accept header, each without its parameters and spaces
AcceptEntries(accept) ==
    LET entries == Split(accept, ",") IN [k \in 1..Len(entries) |-> MimeOf(entries[k])]

\* the claimed test of the Accept stage on route r
Acceptable(r, accept) ==
    LET entries == AcceptEntries(IF Len(accept) = 0 THEN MIME_ANY ELSE accept) IN
    \/ \E k \in 1..Len(entries) : entries[k] = MIME_ANY \/ Declares(r.Produces, entries[k])
    \/ Declares(r.Produces, MIME_ANY)

\* the candidates that the method and Content-Type stages leave
LeftByContentType ==
    SelectSeq(out.candidates,
              LAMBDA e : e.Method = out.req.method /\ matchesContentType(e, out.req.contentType))

LeftByAccept == SelectSeq(LeftByContentType, LAMBDA e : Acceptable(e, out.req.accept))

RECURSIVE ProducesOf(_)
ProducesOf(routes) ==
    IF Len(routes) = 0 THEN <<>> ELSE routes[1].Produces \o ProducesOf(Tail(routes))

\* C13: of the routes left by the Content-Type stage, those survive the Accept
\* stage for which some entry of the Accept header, parameters dropped and
\* spaces trimmed, is */* or one of the route's Produces, or whose Produces
\* holds */*; without Accept header all of them survive; the first survivor
\* is selected, and when none survives the result is 406 with the Produces
\* values of the routes left by the Content-Type stage
C13_AcceptStage ==
    (out # NoOut /\ out.called = "none" /\ Len(LeftByContentType) > 0) =>
        /\ Len(out.req.accept) = 0 => LeftByAccept = LeftByContentType
        /\ Len(LeftByAccept) > 0 => (out.kind = "route" /\ out.route = LeftByAccept[1])
        /\ Len(LeftByAccept) = 0 =>
              /\ out.kind = "error"
              /\ out.status = 406
              /\ out.available = ProducesOf(LeftByContentType)

\* C13 happens: the second entry of the Accept header selects a route behind
\* one that produces something else
C13_Witness ==
    /\ out # NoOut
    /\ out.called = "none"
    /\ out.req.accept = ACCEPT_TEXT_THEN_JSON
    /\ Len(LeftByContentType) = 2
    /\ LeftByContentType[1].Produces = <<>>
    /\ LeftByContentType[2].Produces = <<MIME_JSON>>
    /\ out.kind = "route"
    /\ out.route = LeftByContentType[2]

\* C14: the route stored by WebService.Route has the Produces and Consumes of
\* its builder, and those of the service where the builder declared none
C14_RouteCarriesMimeTypes ==
    out.kind = "Route" =>
        LET routes == ws[out.service].routes
            stored == routes[Len(routes)]
        IN /\ stored.Produces = (IF Len(out.produces) = 0 THEN out.rootProduces ELSE out.produces)
           /\ stored.Consumes = (IF Len(out.consumes) = 0 THEN out.rootConsumes ELSE out.consumes)

\* C15: no two registered services have the same root path
C15_UniqueRoots ==
    \A i \in 1..Len(webServices), j \in 1..Len(webServices) :
        i # j => ws[webServices[i]].rootPath # ws[webServices[j]].rootPath

\* C16: of the services added with the same root path at most one is
\* registered, and no thread is inside SelectRoute while another is between
\* the duplicate check and the append of Container.Add
C16_AddAtomic ==
    /\ \A i \in 1..Len(webServices), j \in 1..Len(webServices) :
          (i # j /\ webServices[i] # webServices[j])
              => ws[webServices[i]].rootPath # ws[webServices[j]].rootPath
    /\ \A i \in 1..Len(webServices), j \in 1..Len(webServices) :
          i # j => webServices[i] # webServices[j]
    /\ \A t \in Threads, u \in Threads :
          pc[t].at = "Add.append" => pc[u].at # "dispatch.SelectRoute"

\* the services whose route list the next step of thread t accesses
RoutesAccessedBy(t) ==
    IF pc[t].at \in {"Route.append", "RemoveRoute.filter", "Routes.copy"}
    THEN {pc[t].service}
    ELSE IF pc[t].at = "dispatch.SelectRoute"
            /\ ~DetectedFor(t).st.panic /\ DetectedFor(t).service # NoService
    THEN {DetectedFor(t).service}
    ELSE {}

\* C17: a thread that accesses the route list of a service holds the route
\* lock of that service
C17_RouteListUnderLock ==
    \A t \in Threads : \A s \in RoutesAccessedBy(t) : Holds(routesLock[s], t)

\* C18: a Dispatch with writer and request calls exactly one of the function
\* of the selected route, with the path parameters of the request, and the
\* service error handler; a Dispatch without writer or request calls neither
C18_ExactlyOneHandler ==
    Served =>
        IF out.kind = "nil" THEN out.called = "none"
        ELSE \/ /\ out.kind = "route"
                /\ out.called = out.route.Function
                /\ out.params = ExtractParameters(out.route, out.req.path).params
             \/ /\ out.kind = "error"
                /\ out.called = "serviceErrorHandleFunc"

-----------------------------------------------------------------------------
(* Properties of parameter extraction *)

Extracted == out.kind = "ExtractParameters"

UrlParts == tokenizePath(out.urlPath)

\* the position of the ":" of a custom verb at the end of tok, 0 when tok has none
RECURSIVE VerbSuffixFrom(_, _)
VerbSuffixFrom(tok, k) ==
    IF k < 1 THEN 0
    ELSE IF tok[k] = ":" THEN (IF k < Len(tok) THEN k ELSE 0)
    ELSE IF tok[k] \in Letters THEN VerbSuffixFrom(tok, k - 1)
    ELSE 0

WithoutVerb(tok) ==
    IF VerbSuffixFrom(tok, Len(tok)) = 0 THEN tok
    ELSE SubSeq(tok, 1, VerbSuffixFrom(tok, Len(tok)) - 1)

\* the route token at index i declares a custom verb
DeclaresVerb(r, i) ==
    /\ VerbSuffixFrom(r.Path, Len(r.Path)) # 0
    /\ VerbSuffixFrom(r.pathParts[i], Len(r.pathParts[i])) # 0

\* the route token at index i without the custom verb it declares
RouteToken(r, i) ==
    IF DeclaresVerb(r, i) THEN WithoutVerb(r.pathParts[i]) ELSE r.pathParts[i]

IsPlainVariable(tok) ==
    /\ HasPrefix(tok, <<"{">>)
    /\ HasSuffix(tok, <<"}">>)
    /\ Index(tok, ":") = 0

IsVariable(tok) == IsPlainVariable(tok) \/ IsConstrained(tok) \/ IsWildcard(tok)

NameOf(tok) ==
    IF Index(tok, ":") = 0 THEN SubSeq(tok, 2, Len(tok) - 1)
    ELSE SubSeq(tok, 2, Index(tok, ":") - 1)

\* no token {name:*} stands before index i
BeforeWildcard(r, i) == \A k \in 1..(i - 1) : ~IsWildcard(RouteToken(r, k))

VariableNames(r) ==
    { NameOf(RouteToken(r, i)) : i \in { k \in 1..Len(r.pathParts) : IsVariable(RouteToken(r, k)) } }

C20_WildcardTakesRest ==
    Extracted =>
        \A i \in 1..Len(out.route.pathParts) :
            (BeforeWildcard(out.route, i) /\ IsWildcard(RouteToken(out.route, i))) =>
                /\ ~out.result.panic
                /\ NameOf(RouteToken(out.route, i)) \in DOMAIN out.result.params
                /\ out.result.params[NameOf(RouteToken(out.route, i))] =
                      Join(SubSeq(UrlParts, i, Len(UrlParts)), <<"/">>)
                /\ DOMAIN out.result.params =
                      { NameOf(RouteToken(out.route, k)) :
                          k \in { j \in 1..i : IsVariable(RouteToken(out.route, j)) } }

\* C20 happens: two request tokens at the wildcard, a route token behind it
C20_Witness ==
    /\ Extracted
    /\ out.route.Function = "FileItem"
    /\ out.urlPath = <<"/", "v", "/", "f", "/", "a", "/", "b">>
    /\ out.result.params = [k \in {<<"p">>} |-> <<"a", "/", "b">>]

-----------------------------------------------------------------------------
(* Properties of the route list *)

\* the positions of the routes that RemoveRoute(path, method) is to keep
KeptPositions(routes, path, method) ==
    { k \in 1..Len(routes) : ~(routes[k].Method = method /\ routes[k].Path = path) }

\* the j-th of these positions, in ascending order
KeptPosition(routes, path, method, j) ==
    CHOOSE k \in KeptPositions(routes, path, method) :
        Cardinality({ i \in KeptPositions(routes, path, method) : i < k }) = j - 1

\* C21: WebService.Route leaves the routes of the list in place and adds the
\* built route behind them; WebService.RemoveRoute(path, method) leaves the
\* routes that differ from (method, path) in Method or Path, in their order,
\* removes all the others and returns nil
C21_AppendAndRemoveExact ==
    /\ out.kind = "Route" =>
          LET routes == ws[out.service].routes IN
          /\ Len(routes) = Len(out.before) + 1
          /\ SubSeq(routes, 1, Len(out.before)) = out.before
          /\ routes[Len(routes)].Method = out.spec.method
          /\ routes[Len(routes)].relativePath = out.spec.subPath
          /\ routes[Len(routes)].Function = out.spec.fn
    /\ out.kind = "RemoveRoute" =>
          LET routes == ws[out.service].routes IN
          /\ out.err = NoError
          /\ Len(routes) = Cardinality(KeptPositions(out.before, out.path, out.method))
          /\ \A j \in 1..Len(routes) :
                routes[j] = out.before[KeptPosition(out.before, out.path, out.method, j)]

\* C21 happens: of GET and POST on one path the GET route is removed
C21_Witness ==
    /\ out.kind = "RemoveRoute"
    /\ out.method = "GET"
    /\ Len(out.before) = 2
    /\ out.before[1].Method = "GET"
    /\ out.before[2].Method = "POST"
    /\ out.before[1].Path = out.path
    /\ out.before[2].Path = out.path
    /\ ws[out.service].routes = <<out.before[2]>>

-----------------------------------------------------------------------------
(* Properties of candidate selection *)

SelectedRoutes == out.kind = "selectRoutes" /\ ~out.panic

\* the request token matches the route token at its position: a variable
\* takes any token, a literal token its equal
TokenMatches(routeToken, requestToken) ==
    IsVariable(routeToken) \/ routeToken = requestToken

\* C22: a candidate whose final token is no wildcard has as many tokens as
\* the request, and each of its tokens matches the request token at its
\* position; the method plays no part: the routes of literal tokens equal to
\* the request's are candidates whatever their method
C22_CandidatesByTokens ==
    SelectedRoutes =>
        /\ \A k \in 1..Len(out.matched) :
              LET parts == out.matched[k].pathParts IN
              ~IsWildcard(parts[Len(parts)]) =>
                  /\ Len(parts) = Len(tokenizePath(out.urlPath))
                  /\ \A i \in 1..Len(parts) :
                        TokenMatches(parts[i], tokenizePath(out.urlPath)[i])
        /\ \A k \in 1..Len(ws[out.service].routes) :
              ws[out.service].routes[k].pathParts = tokenizePath(out.urlPath)
                  => \E j \in 1..Len(out.matched) :
                        /\ out.matched[j].Function = ws[out.service].routes[k].Function
                        /\ out.matched[j].Method = ws[out.service].routes[k].Method

-----------------------------------------------------------------------------
(* Properties of tokenizePath *)

\* the positions of the path that hold something else than a slash
NonSlash(path) == { i \in 1..Len(path) : path[i] # "/" }

\* the path from its first to its last character that is no slash
Inner(path) ==
    IF NonSlash(path) = {} THEN <<>>
    ELSE SubSeq(path, CHOOSE i \in NonSlash(path) : \A j \in NonSlash(path) : i <= j,
                      CHOOSE i \in NonSlash(path) : \A j \in NonSlash(path) : j <= i)

\* the tokens, each followed by a slash, one after the other
RECURSIVE Slashed(_)
Slashed(tokens) ==
    IF tokens = <<>> THEN <<>> ELSE Head(tokens) \o <<"/">> \o Slashed(Tail(tokens))

\* C23: "/" has no tokens; of any other path the tokens hold no slash and,
\* written one after the other with a slash between, give the path without
\* its leading and trailing slashes, so that the empty path has the empty
\* token alone and two slashes in a row inside a path give an empty token
C23_TokensOfPath ==
    out.kind = "tokenizePath" =>
        IF out.path = <<"/">> THEN out.tokens = <<>>
        ELSE /\ Len(out.tokens) >= 1
             /\ \A k \in 1..Len(out.tokens) : Index(out.tokens[k], "/") = 0
             /\ Slashed(out.tokens) = Inner(out.path) \o <<"/">>
             /\ out.path = <<>> => out.tokens = << <<>> >>
             /\ out.path \in { <<"/", "a", "/", "b", "/">>, <<"/", "a", "/", "b">> }
                   => out.tokens = << <<"a">>, <<"b">> >>

\* slashes lead the path and two slashes in a row lie inside it
C23_Witness ==
    /\ out.kind = "tokenizePath"
    /\ out.path = <<"/", "/", "a", "/", "/", "b">>
    /\ out.tokens = << <<"a">>, <<>>, <<"b">> >>

-----------------------------------------------------------------------------
(* Properties of templateToRegExp *)

\* what a token stands for in the expression
FragmentOf(tok) ==
    IF IsPlainVariable(tok) THEN <<"(", "[", "^", "/", "]", "+", "?", ")">>
    ELSE IF IsWildcard(tok) THEN <<"(", ".", "*", ")">>
    ELSE IF IsConstrained(tok) THEN <<"(">> \o ExprOf(tok) \o <<")">>
    ELSE QuoteMeta(tok)

RECURSIVE FragmentsOf(_)
FragmentsOf(tokens) ==
    IF tokens = <<>> THEN <<>>
    ELSE (IF Head(tokens) = <<>> THEN <<>> ELSE <<"/">> \o FragmentOf(Head(tokens)))
             \o FragmentsOf(Tail(tokens))

IsLiteral(tok) == ~IsVariable(tok)

RECURSIVE LengthOf(_)
LengthOf(tokens) ==
    IF tokens = <<>> THEN 0 ELSE Len(Head(tokens)) + LengthOf(Tail(tokens))

RECURSIVE NamesOf(_)
NamesOf(tokens) ==
    IF tokens = <<>> THEN <<>> ELSE <<NameOf(Head(tokens))>> \o NamesOf(Tail(tokens))

\* C24: templateToRegExp returns the tokens of the template, the names of
\* its variable tokens in their order and their number, the summed length of
\* its literal tokens, and "^", then for each token that is not empty a "/"
\* and the token's fragment, then "(/.*)?$"
C24_TemplateToRegExp ==
    out.kind = "templateToRegExp" =>
        /\ out.result.tokens = tokenizePath(out.template)
        /\ out.result.varNames = NamesOf(SelectSeq(out.result.tokens, IsVariable))
        /\ out.result.varCount = Len(out.result.varNames)
        /\ out.result.literalCount = LengthOf(SelectSeq(out.result.tokens, IsLiteral))
        /\ out.result.expression
              = <<"^">> \o FragmentsOf(out.result.tokens) \o <<"(", "/", ".", "*", ")", "?", "$">>

\* a literal with a character to escape, a plain variable, an empty token
\* and a wildcard
C24_Witness ==
    /\ out.kind = "templateToRegExp"
    /\ out.template = <<"/", "b", ".", "c", "/", "{", "i", "}", "/", "/", "{", "p", ":", "*", "}">>
    /\ out.result.expression = <<"^", "/", "b", "\\", ".", "c", "/", "(", "[", "^", "/", "]", "+", "?", ")", "/", "(", ".", "*", ")", "(", "/", ".", "*", ")", "?", "$">>
    /\ out.result.varNames = << <<"i">>, <<"p">> >>
    /\ out.result.literalCount = 3

-----------------------------------------------------------------------------
(* Properties of the custom verb functions *)

\* where the suffix ":" and letters of the token starts, 0 when it has none
SuffixPos(tok) == VerbSuffixFrom(tok, Len(tok))

\* C25: hasCustomVerb tells whether the token ends in ":" and letters;
\* removeCustomVerb returns the token without that suffix, and the token
\* itself when it has none; isMatchCustomVerb tells whether the route token
\* has such a suffix and the request token ends in the same suffix
C25_VerbHelpersAgree ==
    /\ out.kind = "hasCustomVerb" =>
          out.result = (SuffixPos(out.routeToken) # 0)
    /\ out.kind = "removeCustomVerb" =>
          /\ SuffixPos(out.str) = 0 => out.result = out.str
          /\ SuffixPos(out.str) # 0 =>
                out.result \o SubSeq(out.str, SuffixPos(out.str), Len(out.str)) = out.str
          /\ out.str = <<"u", ":", "u">> => out.result = <<"u">>
          /\ out.str = <<":", "u">> => out.result = <<>>
          /\ out.str = <<"u">> => out.result = <<"u">>
    /\ out.kind = "isMatchCustomVerb" =>
          out.result = ( /\ SuffixPos(out.routeToken) # 0
                         /\ HasSuffix(out.pathToken,
                                      SubSeq(out.routeToken, SuffixPos(out.routeToken),
                                             Len(out.routeToken))) )

\* the verb is removed from a token that holds another colon
C25_Witness ==
    /\ out.kind = "removeCustomVerb"
    /\ out.str = <<":", ":", "u">>
    /\ out.result = <<":">>

-----------------------------------------------------------------------------
(* Properties of the regexp cache *)

\* C26: every entry of regexCache holds, under its key, the regexp compiled
\* from the key, so that a lookup that hits matches a token as a compilation
\* of the key would
C26_CacheHoldsItsKey ==
    \A pattern \in DOMAIN regexCache :
        /\ regexCache[pattern] = pattern
        /\ RegexCompiles(pattern)

\* what SelectRoute returns for the request served when no request was
\* dispatched before it
FirstSelectRoute ==
    SelectRoute(webServices, out.req,
                [rc |-> [k \in {} |-> <<>>], vc |-> {}, panic |-> FALSE])

\* C27: the route or error status selected for a request is the one selected
\* for it by a router that served no request before, the services and routes
\* being the same
C27_SelectionIgnoresHistory ==
    (Served /\ out.kind \in {"route", "error", "panic"}) =>
        /\ out.status = FirstSelectRoute.status
        /\ out.route = FirstSelectRoute.route
        /\ out.service = FirstSelectRoute.service

-----------------------------------------------------------------------------
(* Properties of the paths of the routes *)

\* C28: the Path of every route is the root path its service has now and the
\* route's relative path with one "/" between them, and its pathParts are
\* the tokens of that Path
C28_RoutesUnderCurrentRoot ==
    \A s \in Services : \A k \in 1..Len(ws[s].routes) :
        /\ ws[s].routes[k].Path = concatPath(ws[s].rootPath, ws[s].routes[k].relativePath)
        /\ ws[s].routes[k].pathParts = tokenizePath(ws[s].routes[k].Path)

-----------------------------------------------------------------------------
(* Properties of the lock of the registry *)

Handling(t) == pc[t].at = "dispatch.handle"

\* C29: a thread whose dispatch calls the route function or the error
\* handler does not hold webServicesLock, so the lock is free for Add and
\* Remove, of the handler or of another thread, whenever no thread is inside
\* Add, Remove or SelectRoute
C29_HandlerHoldsNoLock ==
    /\ \A t \in Threads : Handling(t) => ~Holds(webServicesLock, t)
    /\ (\A t \in Threads : Handling(t) \/ pc[t] = AtRest) => CanLock(webServicesLock)

\* a thread is inside Add, with the lock, while another calls its handler
C29_Witness ==
    \E t \in Threads, u \in Threads :
        /\ Handling(t)
        /\ webServicesLock.writer = u
        /\ pc[u].at = "Add.append"
        /\ u # t

-----------------------------------------------------------------------------
(* Properties of concurrent selections *)

\* what SelectRoute returns for the request of thread t when no other
\* dispatch runs or ran
SelectRouteAlone(t) ==
    SelectRoute(webServices, pc[t].req,
                [rc |-> [k \in {} |-> <<>>], vc |-> {}, panic |-> FALSE])

\* C30: selecting changes neither the list of services nor a list of routes
\* nor the counts of a stored route, and a dispatch that runs beside others
\* selects what it selects when it runs alone
C30_DispatchesDoNotInterfere ==
    /\ webServices = <<1>>
    /\ ws[1].routes = <<Build(ws[1], ThreadBuilder)>>
    /\ \A s \in Services : \A k \in 1..Len(ws[s].routes) :
          ws[s].routes[k].paramCount = 0 /\ ws[s].routes[k].staticCount = 0
    /\ \A t \in Threads :
          Handling(t) =>
              /\ pc[t].status = SelectRouteAlone(t).status
              /\ pc[t].route = SelectRouteAlone(t).route

====
